---- MODULE Spec2Model ----
(***************************************************************************)
(* mrt-server: the Taipei Metro arrival / crowding proxy.  The repository  *)
(* holds several revisions of the same server; each is modelled as its own *)
(* state machine over the variables it owns:                               *)
(*   server.js (2nd revision, lines 264-666)  cache, updateAll, queries    *)
(*   part_001                                 updateAll with fetchApi      *)
(*   part_002 / part_006                      LiveBoard + timetable hybrid *)
(*   part_004                                 updateData / crowdedness     *)
(*   part_007                                 fetchTDXData                 *)
(* JavaScript strings are sequences of characters, so that trim / replace  *)
(* / split / parseInt are computed, not assumed.  A CJK character is       *)
(* written as its reading: "zhan" is U+7AD9 (the station suffix), "tai"    *)
(* is U+53F0 and "tai_trad" is U+81FA (the two forms of one character).    *)
(***************************************************************************)
EXTENDS Integers, Sequences, FiniteSets, TLC

VARIABLES
    variant,        \* which revision is running
    nameA, nameB,   \* station-name normalisation: the two raw names
    keyA, keyB,     \* ... and their keys, once normalised
    termAdded,      \* the terminator glyph was appended to nameB
    normPc,         \* "input" | "done"
    \* ---- the running server revision ----
    hasCreds,       \* MRT_USER and MRT_PASS are both set
    cache,          \* the global cache object (cache / globalCache)
    clock,          \* the number of update cycles that got past their fetches
    pc,             \* the update function: "idle" | "fetching" (suspended at its await)
    response,       \* the last HTTP response sent
    auth,           \* the TDX revisions: authToken (0 is null), the tokens issued so far
    liveBoardData,  \* part_002 / part_006: the last live-board payload
    staticTimetable,\* part_002 / part_006: the last timetable payload
    fetches,        \* part_002 / part_006: the feeds whose payload has been stored
    \* ---- history variables ----
    origin,         \* server.js: the update cycle that last wrote each cache field
    lastCycle       \* what happened in the last completed update cycle

vars_norm == <<nameA, nameB, keyA, keyB, termAdded, normPc>>

vars_run == <<hasCreds, cache, clock, pc, response>>

vars_tdx == <<auth, liveBoardData, staticTimetable, fetches>>

vars == <<variant, vars_norm, vars_run, vars_tdx, origin, lastCycle>>

\* what the actions of one revision leave alone: the variables it does not own
frame_norm == <<variant, vars_run, vars_tdx, origin, lastCycle>>
frame_srv == <<variant, vars_norm, vars_tdx>>
frame_p1 == <<variant, vars_norm, vars_tdx, origin>>
frame_p7 == <<variant, vars_norm, liveBoardData, staticTimetable, fetches, origin>>
frame_p2 == <<variant, vars_norm, origin>>
frame_p4 == <<variant, vars_norm, vars_tdx, origin>>

(***************************************************************************)
(* JavaScript values                                                       *)
(***************************************************************************)
\* null and undefined where a string is expected: one-element sequences whose
\* element is no character of any string
null == <<"null">>
undefined == <<"undefined">>

\* null and undefined where an object (a feed row) is expected
NullRow == [isNull |-> TRUE]
UndefinedRow == [isUndefined |-> TRUE]

\* a string-typed value that is falsy in a JavaScript condition
Falsy(v) == v \in {null, undefined, <<>>}

\* an object-typed value that is falsy in a JavaScript condition
FalsyRow(r) == r \in {NullRow, UndefinedRow}

\* a || b
OrElse(a, b) == IF Falsy(a) THEN b ELSE a

\* String(v), for the values the feeds carry
String(v) ==
    IF v = null THEN <<"n", "u", "l", "l">>
    ELSE IF v = undefined THEN <<"u", "n", "d", "e", "f", "i", "n", "e", "d">>
    ELSE v

UpperChar(c) ==
    CASE c = "b" -> "B" [] c = "l" -> "L" [] c = "r" -> "R" [] OTHER -> c

\* String.prototype.toUpperCase
ToUpperCase(s) == [i \in DOMAIN s |-> UpperChar(s[i])]

\* /\s/ : the white-space characters of the model's alphabet
IsSpace(c) == c \in {" ", "\n"}

RECURSIVE TrimStart(_)
TrimStart(s) ==
    IF Len(s) > 0 /\ IsSpace(Head(s)) THEN TrimStart(Tail(s)) ELSE s

RECURSIVE TrimEnd(_)
TrimEnd(s) ==
    IF Len(s) > 0 /\ IsSpace(s[Len(s)]) THEN TrimEnd(SubSeq(s, 1, Len(s) - 1)) ELSE s

\* String.prototype.trim
Trim(s) == TrimEnd(TrimStart(s))

\* s.replace(/\s+/g, '')
RemoveSpaces(s) == SelectSeq(s, LAMBDA c : ~IsSpace(c))

\* s.replace(/zhan$/, '') : $ matches at the very end of the string only
ReplaceTrailingZhan(s) ==
    IF Len(s) > 0 /\ s[Len(s)] = "zhan" THEN SubSeq(s, 1, Len(s) - 1) ELSE s

\* s.replace(/^BR/i, '')
ReplaceLeadingBR(s) ==
    IF Len(s) >= 2 /\ s[1] \in {"B", "b"} /\ s[2] \in {"R", "r"}
    THEN SubSeq(s, 3, Len(s)) ELSE s

\* String.prototype.includes
Includes(s, sub) ==
    \E i \in 0..(Len(s) - Len(sub)) : SubSeq(s, i + 1, i + Len(sub)) = sub

(***************************************************************************)
(* Station-name normalisation                                              *)
(***************************************************************************)
\* part_001: normalizeStation
normalizeStation(name) ==
    IF Falsy(name) THEN <<>>
    ELSE RemoveSpaces(ReplaceTrailingZhan(ReplaceLeadingBR(name)))

\* server.js (1st revision): normalizeStationName
normalizeStationName(name) ==
    IF Falsy(name) THEN <<>>
    ELSE Trim(ReplaceTrailingZhan(name))

NoKey == [p1 |-> <<>>, srv |-> <<>>]

\* the variables of a revision that is not the one running
Idle_norm ==
    /\ nameA = <<>>
    /\ nameB = <<>>
    /\ keyA = NoKey
    /\ keyB = NoKey
    /\ termAdded = FALSE
    /\ normPc = "off"

\* server.js line 288: the cache before the first update (lastUpdate 0 is null)
EmptyCache ==
    [lastUpdate |-> 0, trackInfo |-> <<>>, carWeight |-> <<>>, merged |-> <<>>, ok |-> FALSE]

NoOrigin == [lastUpdate |-> 0, trackInfo |-> 0, carWeight |-> 0, merged |-> 0]

NoResponse == [route |-> "none"]

\* no cycle completed yet: the feeds that failed in it, the list served before
\* it, whether it published a list, and the track and Wenhu crowd lists it read
NoCycle == [failed |-> {}, before |-> <<>>, published |-> FALSE, track |-> <<>>,
            br |-> <<>>]

NoAuth == [token |-> 0, issued |-> 0]

\* the state of the TDX revisions, when another revision runs
Idle_tdx ==
    /\ auth = NoAuth
    /\ liveBoardData = <<>>
    /\ staticTimetable = <<>>
    /\ fetches = {}

\* no server revision is running
Idle_run ==
    /\ hasCreds = FALSE
    /\ cache = EmptyCache
    /\ clock = 0
    /\ pc = "off"
    /\ response = NoResponse
    /\ origin = NoOrigin
    /\ lastCycle = NoCycle
    /\ Idle_tdx

MaxNameLen == 2
MaxPad == 2

NameAlphabet == {"tai", "tai_trad", "da", "zhan", " "}

RECURSIVE StringsUpTo(_, _)
StringsUpTo(alphabet, n) ==
    IF n = 0 THEN {<<>>}
    ELSE LET shorter == StringsUpTo(alphabet, n - 1)
         IN shorter \cup {Append(s, c) : s \in {t \in shorter : Len(t) = n - 1}, c \in alphabet}

RawNames == StringsUpTo(NameAlphabet, MaxNameLen) \ {<<>>}

Init_norm ==
    /\ variant = "norm"
    /\ nameA \in RawNames
    /\ nameB = nameA
    /\ keyA = NoKey
    /\ keyB = NoKey
    /\ termAdded = FALSE
    /\ normPc = "input"
    /\ Idle_run

\* the second name gets one more white-space character, anywhere
InsertWhitespace(i) ==
    /\ normPc = "input"
    /\ Len(nameB) < Len(nameA) + MaxPad
    /\ i \in 0..Len(nameB)
    /\ nameB' = SubSeq(nameB, 1, i) \o <<" ">> \o SubSeq(nameB, i + 1, Len(nameB))
    /\ UNCHANGED <<nameA, keyA, keyB, termAdded, normPc, frame_norm>>

\* the second name uses the other form of the script-variant character
SwapVariant(i) ==
    /\ normPc = "input"
    /\ i \in 1..Len(nameB)
    /\ nameB[i] \in {"tai", "tai_trad"}
    /\ nameB' = [nameB EXCEPT ![i] = IF @ = "tai" THEN "tai_trad" ELSE "tai"]
    /\ UNCHANGED <<nameA, keyA, keyB, termAdded, normPc, frame_norm>>

\* the second name gets the trailing terminator glyph (once)
AppendTerminator ==
    /\ normPc = "input"
    /\ ~termAdded
    /\ Len(nameB) < Len(nameA) + MaxPad
    /\ nameB' = Append(nameB, "zhan")
    /\ termAdded' = TRUE
    /\ UNCHANGED <<nameA, keyA, keyB, normPc, frame_norm>>

\* both names are normalised by both normalisers
Normalize ==
    /\ normPc = "input"
    /\ keyA' = [p1 |-> normalizeStation(nameA), srv |-> normalizeStationName(nameA)]
    /\ keyB' = [p1 |-> normalizeStation(nameB), srv |-> normalizeStationName(nameB)]
    /\ normPc' = "done"
    /\ UNCHANGED <<nameA, nameB, termAdded, frame_norm>>

\* the keys are normalised once more, each by the normaliser that made it
NormalizeAgain ==
    /\ normPc = "done"
    /\ keyA' = [p1 |-> normalizeStation(keyA.p1), srv |-> normalizeStationName(keyA.srv)]
    /\ keyB' = [p1 |-> normalizeStation(keyB.p1), srv |-> normalizeStationName(keyB.srv)]
    /\ normPc' = "twice"
    /\ UNCHANGED <<nameA, nameB, termAdded, frame_norm>>

Next_norm ==
    \/ \E i \in 0..(MaxNameLen + MaxPad) : InsertWhitespace(i)
    \/ \E i \in 1..(MaxNameLen + MaxPad) : SwapVariant(i)
    \/ AppendTerminator
    \/ Normalize
    \/ NormalizeAgain

SpecNorm == Init_norm /\ [][Next_norm]_vars

\* C10: two station names that differ only by the script-variant character,
\* by a trailing terminator glyph or by white space (anywhere, also after the
\* terminator) get equal keys, from normalizeStation and from
\* normalizeStationName.
C10_VariantNamesGetEqualKeys ==
    normPc = "done" => keyA = keyB

\* C37: normalising a key once more gives the same key, with normalizeStation
\* and with normalizeStationName
C37_NormalizationIdempotent ==
    normPc = "twice" =>
        /\ keyA.p1 = normalizeStation(nameA)
        /\ keyA.srv = normalizeStationName(nameA)
        /\ keyB.p1 = normalizeStation(nameB)
        /\ keyB.srv = normalizeStationName(nameB)

(***************************************************************************)
(* server.js, 2nd revision (lines 264-666): TrackInfo + CarWeight cache     *)
(***************************************************************************)
\* strings of the feeds
S_132 == <<"1", "3", "2">>
S_132pad == <<"1", "3", "2", " ">>
\* train 7, bare and padded with zeros to three digits
S_7 == <<"7">>
S_007 == <<"0", "0", "7">>
S_BL12 == <<"B", "L", "1", "2">>
S_BL14 == <<"B", "L", "1", "4">>
S_bl12 == <<"b", "l", "1", "2">>
S_BL99 == <<"B", "L", "9", "9">>
\* Taipei Main Station (U+53F0 U+5317 U+8ECA U+7AD9)
S_TaipeiMain == <<"tai", "bei", "che", "zhan">>
\* Zhongxiao Xinsheng (U+5FE0 U+5B5D U+65B0 U+751F)
S_ZhongxiaoXinsheng == <<"zhong", "xiao", "xin", "sheng">>
\* Nangang Exhibition Center, the destination used in the examples
S_Nangang == <<"nan", "gang">>
S_Dingpu == <<"ding", "pu">>
S_0128 == <<"0", "1", ":", "2", "8">>
S_0310 == <<"0", "3", ":", "1", "0">>

\* server.js: stationIdToName, the two entries the model uses
stationIdToName(sid) ==
    CASE sid = S_BL12 -> S_TaipeiMain
      [] sid = S_BL14 -> S_ZhongxiaoXinsheng
      [] OTHER -> undefined

\* String(row.TrainNumber).trim(), or '' when the field is null
TrainNum(row) ==
    IF row.TrainNumber \in {null, undefined} THEN <<>> ELSE Trim(String(row.TrainNumber))

\* a lookup that finds nothing: no search of the whole list
FindByTrainNumber_none(list, num) == UndefinedRow

\* list.find(row => String(row.TrainNumber).trim() === num): the first match,
\* or undefined
RECURSIVE FindByTrainNumber(_, _)
FindByTrainNumber(list, num) ==
    IF list = <<>> THEN UndefinedRow
    ELSE IF Trim(String(Head(list).TrainNumber)) = num THEN Head(list)
    ELSE FindByTrainNumber(Tail(list), num)

\* Map.set in list order: the last row of a train number wins
RECURSIVE WeightMapGet(_, _)
WeightMapGet(weightList, num) ==
    IF weightList = <<>> THEN UndefinedRow
    ELSE LET last == weightList[Len(weightList)]
         IN IF TrainNum(last) # <<>> /\ TrainNum(last) = num THEN last
            ELSE WeightMapGet(SubSeq(weightList, 1, Len(weightList) - 1), num)

\* a list holds the JSON value null: reading a field of it throws a TypeError
HasNull(list) == \E i \in DOMAIN list : list[i] = NullRow

\* a merge that emits entries only for the track rows that have a crowd row
mergeTrackAndWeight_matchedOnly(trackList, weightList) ==
    LET matched == SelectSeq(trackList,
                             LAMBDA row : ~FalsyRow(WeightMapGet(weightList, TrainNum(row))))
    IN [i \in DOMAIN matched |->
          LET row == matched[i]
          IN [trainNumber |-> TrainNum(row),
              stationName |-> OrElse(row.StationName, null),
              destinationName |-> OrElse(row.DestinationName, null),
              countDown |-> OrElse(row.CountDown, null),
              rawTrack |-> row,
              rawCrowd |-> WeightMapGet(weightList, TrainNum(row))]]

\* server.js: mergeTrackAndWeight (defined when no track row is null)
mergeTrackAndWeight(trackList, weightList) ==
    [i \in DOMAIN trackList |->
        LET row == trackList[i]
            num == TrainNum(row)
        IN [trainNumber |-> num,
            stationName |-> OrElse(row.StationName, null),
            destinationName |-> OrElse(row.DestinationName, null),
            countDown |-> OrElse(row.CountDown, null),
            rawTrack |-> row,
            rawCrowd |-> LET w == WeightMapGet(weightList, num)
                         IN IF FalsyRow(w) THEN NullRow ELSE w]]

\* trainsByStationId, case A: one entry per track record at the station
StationTrackEntries(sid, sName, trackList, weightList) ==
    LET targetTrains == IF Falsy(sName) THEN <<>>
                        ELSE SelectSeq(trackList, LAMBDA t : t.StationName = sName)
        stationWeightData == SelectSeq(weightList, LAMBDA w : w.StationID = sid)
    IN [i \in DOMAIN targetTrains |->
          LET track == targetTrains[i]
              num == TrainNum(track)
              atStation == WeightMapGet(stationWeightData, num)
              w == IF FalsyRow(atStation)
                   THEN FindByTrainNumber(weightList, num)
                   ELSE atStation
          IN [trainNumber |-> num,
              stationId |-> sid,
              stationName |-> track.StationName,
              destinationName |-> track.DestinationName,
              countDown |-> track.CountDown,
              rawTrack |-> track,
              rawCrowd |-> IF FalsyRow(w) THEN NullRow ELSE w]]

\* trainsByStationId, case B: the crowd rows of the station whose train is not
\* in the result yet, in list order
RECURSIVE AddCrowdOnly(_, _, _, _, _)
AddCrowdOnly(mergedResults, stationWeightData, sid, sName, trackList) ==
    IF stationWeightData = <<>> THEN mergedResults
    ELSE LET w == Head(stationWeightData)
             num == TrainNum(w)
             exists == \E i \in DOMAIN mergedResults : mergedResults[i].trainNumber = num
             t == FindByTrainNumber(trackList, num)
             entry == [trainNumber |-> num,
                       stationId |-> sid,
                       stationName |-> OrElse(sName, w.StationName),
                       destinationName |-> IF FalsyRow(t) THEN null
                                           ELSE OrElse(t.DestinationName, null),
                       countDown |-> IF FalsyRow(t) THEN null ELSE OrElse(t.CountDown, null),
                       rawTrack |-> IF FalsyRow(t) THEN NullRow ELSE t,
                       rawCrowd |-> w]
         IN AddCrowdOnly(IF exists THEN mergedResults ELSE Append(mergedResults, entry),
                         Tail(stationWeightData), sid, sName, trackList)

\* find (line 550) reads a null row before it reaches a match: a TypeError
FindThrows(trackList, num) ==
    /\ HasNull(trackList)
    /\ LET firstNull == CHOOSE i \in DOMAIN trackList :
                            /\ trackList[i] = NullRow
                            /\ \A j \in 1..(i - 1) : trackList[j] # NullRow
       IN \A j \in 1..(firstNull - 1) : Trim(String(trackList[j].TrainNumber)) # num

\* trainsByStationId throws: the filter of line 506 reads every track row when
\* the station is known; otherwise only find (line 550) reads track rows
trainsByStationIdThrows(stationId, trackList, weightList) ==
    LET sid == ToUpperCase(stationId)
        sName == stationIdToName(sid)
        stationWeightData == SelectSeq(weightList, LAMBDA w : w.StationID = sid)
    IN IF ~Falsy(sName) THEN HasNull(trackList)
       ELSE \E i \in DOMAIN stationWeightData :
               FindThrows(trackList, TrainNum(stationWeightData[i]))

\* server.js: trainsByStationId (when it does not throw)
trainsByStationId(stationId, trackList, weightList) ==
    LET sid == ToUpperCase(stationId)
        sName == stationIdToName(sid)
    IN AddCrowdOnly(StationTrackEntries(sid, sName, trackList, weightList),
                    SelectSeq(weightList, LAMBDA w : w.StationID = sid),
                    sid, sName, trackList)

MaxRows == 1
MaxCycles == 2

TrackRow(num, station, dest, countDown) ==
    [TrainNumber |-> num, StationName |-> station, DestinationName |-> dest, CountDown |-> countDown]

WeightRow(num, sid) == [TrainNumber |-> num, StationID |-> sid, StationName |-> stationIdToName(sid)]

\* the rows TrackInfo may carry; null is a JSON null element of the array
TrackRows ==
    { TrackRow(S_132, S_TaipeiMain, S_Nangang, S_0128),
      TrackRow(S_132pad, S_ZhongxiaoXinsheng, S_Dingpu, S_0310),
      TrackRow(S_7, S_TaipeiMain, S_Dingpu, S_0310),
      TrackRow(S_132, S_ZhongxiaoXinsheng \o <<"zhan">>, S_Dingpu, S_0310),
      NullRow }

\* the rows CarWeight may carry (a null element makes fetchCarWeightAll throw)
WeightRows ==
    { WeightRow(S_132, S_BL12),
      WeightRow(S_132, S_BL14),
      WeightRow(S_007, S_BL12) }

RECURSIVE ListsUpTo(_, _)
ListsUpTo(rows, n) ==
    IF n = 0 THEN {<<>>}
    ELSE LET shorter == ListsUpTo(rows, n - 1)
         IN shorter \cup {Append(l, r) : l \in {t \in shorter : Len(t) = n - 1}, r \in rows}

\* what fetchTrackInfo / fetchCarWeightAll resolve to: the empty list, the
\* lists of one row, the lists in which the feed repeats a row, and the
\* crowd list with one train at two stations
TrackResults ==
    ListsUpTo(TrackRows, 1)
        \cup {<<TrackRow(S_132, S_TaipeiMain, S_Nangang, S_0128),
                TrackRow(S_132, S_TaipeiMain, S_Nangang, S_0128)>>,
              <<TrackRow(S_7, S_TaipeiMain, S_Dingpu, S_0310),
                TrackRow(S_132, S_TaipeiMain, S_Nangang, S_0128)>>}
WeightResults ==
    ListsUpTo(WeightRows, 1)
        \cup {<<WeightRow(S_132, S_BL12), WeightRow(S_132, S_BL12)>>,
              <<WeightRow(S_132, S_BL12), WeightRow(S_132, S_BL14)>>}

\* the body of a TrackInfo answer: its text around the JSON, and what the text
\* between the first [ and the last ] parses to ("none": no such brackets,
\* "invalid": neither parse succeeds, "other": not an array)
TrackPayload(text, json, rows) == [text |-> text, json |-> json, rows |-> rows]

S_soap == <<"<", "s", "o", "a", "p", ">">>
S_htmlTag == <<"<", "h", "t", "m", "l">>
\* the title of the error page (U+8ACB U+6D3D U+7CFB U+7D71 U+7BA1 U+7406 U+54E1)
S_errorTitle == <<"<", "t", "i", "t", "l", "e", ">", "qing", "qia", "xi", "tong", "guan", "li", "yuan">>

HtmlErrorPage == TrackPayload(S_htmlTag \o <<">">> \o S_errorTitle, "none", <<>>)

TrackPayloads ==
    {TrackPayload(S_soap, "array", l) : l \in TrackResults}
        \cup {HtmlErrorPage,
              TrackPayload(S_soap, "none", <<>>),
              TrackPayload(S_soap, "invalid", <<>>)}

\* lines 342-345: the rough test for an error page
IsHtmlErrorPage(raw) == Includes(raw.text, S_errorTitle) \/ Includes(raw.text, S_htmlTag)

\* lines 336-383
extractJsonArrayFromSoap(raw) ==
    IF IsHtmlErrorPage(raw) THEN <<>>
    ELSE IF raw.json = "array" THEN raw.rows
    ELSE <<>>

StationQueries == {S_BL12, S_bl12, S_BL14, S_BL99}

Init_srv ==
    /\ variant = "srv"
    /\ hasCreds \in BOOLEAN
    /\ cache = EmptyCache
    /\ origin = NoOrigin
    /\ clock = 0
    /\ pc = "idle"
    /\ response = NoResponse
    /\ lastCycle = NoCycle
    /\ Idle_tdx
    /\ Idle_norm

\* updateAll without credentials: lines 569-573
UpdateAllNoCreds ==
    /\ variant = "srv"
    /\ pc = "idle"
    /\ ~hasCreds
    /\ cache' = [cache EXCEPT !.ok = FALSE]
    /\ UNCHANGED <<hasCreds, origin, clock, pc, response, lastCycle, frame_srv>>

\* updateAll up to its await: the three requests are sent
UpdateAllBegin ==
    /\ variant = "srv"
    /\ pc = "idle"
    /\ hasCreds
    /\ clock < MaxCycles
    /\ pc' = "fetching"
    /\ UNCHANGED <<hasCreds, cache, origin, clock, response, lastCycle, frame_srv>>

\* updateAll after its await, when a fetch rejected (a transport error, a null
\* crowd row): the catch block
UpdateAllRejected ==
    /\ variant = "srv"
    /\ pc = "fetching"
    /\ cache' = [cache EXCEPT !.ok = FALSE]
    /\ pc' = "idle"
    /\ UNCHANGED <<hasCreds, origin, clock, response, lastCycle, frame_srv>>

\* updateAll after its await, when both fetches resolved: lines 583-587, and
\* the catch block when mergeTrackAndWeight throws
UpdateAllResume(rawTrack, weightAll) ==
    LET trackList == extractJsonArrayFromSoap(rawTrack)
    IN
    /\ variant = "srv"
    /\ pc = "fetching"
    /\ clock' = clock + 1
    /\ lastCycle' = [NoCycle EXCEPT !.failed = IF IsHtmlErrorPage(rawTrack)
                                                THEN {"track"} ELSE {}]
    /\ IF HasNull(trackList)
       THEN /\ cache' = [cache EXCEPT !.lastUpdate = clock', !.trackInfo = trackList,
                                      !.carWeight = weightAll, !.ok = FALSE]
            /\ origin' = [origin EXCEPT !.lastUpdate = clock', !.trackInfo = clock',
                                        !.carWeight = clock']
       ELSE /\ cache' = [lastUpdate |-> clock', trackInfo |-> trackList,
                         carWeight |-> weightAll,
                         merged |-> mergeTrackAndWeight(trackList, weightAll),
                         ok |-> TRUE]
            /\ origin' = [lastUpdate |-> clock', trackInfo |-> clock',
                          carWeight |-> clock', merged |-> clock']
    /\ pc' = "idle"
    /\ response' = NoResponse
    /\ UNCHANGED <<hasCreds, frame_srv>>

\* a station query that starts an update cycle when none is running
GetStation_refreshing(stationId) ==
    /\ variant = "srv"
    /\ pc \in {"idle", "fetching"}
    /\ response' = [route |-> "station", status |-> 200, success |-> cache.ok,
                    stationId |-> ToUpperCase(stationId),
                    stationName |-> ToUpperCase(stationId),
                    lastUpdate |-> cache.lastUpdate, count |-> 0, trains |-> <<>>]
    /\ pc' = "fetching"
    /\ UNCHANGED <<hasCreds, cache, origin, clock, lastCycle, frame_srv>>

\* GET /api/station/:stationId ; a null track row makes the handler throw
GetStation(stationId) ==
    /\ variant = "srv"
    /\ pc \in {"idle", "fetching"}
    /\ response' =
         IF trainsByStationIdThrows(stationId, cache.trackInfo, cache.carWeight)
         THEN [route |-> "station", status |-> 500]
         ELSE LET sid == ToUpperCase(stationId)
                  trains == trainsByStationId(sid, cache.trackInfo, cache.carWeight)
              IN [route |-> "station", status |-> 200, success |-> cache.ok,
                  stationId |-> sid,
                  stationName |-> OrElse(stationIdToName(sid), sid),
                  lastUpdate |-> cache.lastUpdate,
                  count |-> Len(trains), trains |-> trains]
    /\ UNCHANGED <<hasCreds, cache, origin, clock, pc, lastCycle, frame_srv>>

\* GET /api/trains
GetTrains ==
    /\ variant = "srv"
    /\ pc \in {"idle", "fetching"}
    /\ response' = [route |-> "trains", status |-> 200, success |-> cache.ok,
                    lastUpdate |-> cache.lastUpdate,
                    count |-> Len(cache.merged), data |-> cache.merged]
    /\ UNCHANGED <<hasCreds, cache, origin, clock, pc, lastCycle, frame_srv>>

Next_srv ==
    \/ UpdateAllNoCreds
    \/ UpdateAllBegin
    \/ UpdateAllRejected
    \/ \E rawTrack \in TrackPayloads, weightAll \in WeightResults :
          UpdateAllResume(rawTrack, weightAll)
    \/ \E stationId \in StationQueries : GetStation(stationId)
    \/ GetTrains

SpecSrv == Init_srv /\ [][Next_srv]_vars

\* C1: whatever a query can read of cache.trackInfo, cache.carWeight,
\* cache.merged and cache.lastUpdate was written by one and the same update
\* cycle, in every state (between cycles, while one is suspended, and after one
\* failed).
C1_CacheFromOneCycle ==
    variant = "srv" =>
        /\ origin.trackInfo = origin.lastUpdate
        /\ origin.carWeight = origin.lastUpdate
        /\ origin.merged = origin.lastUpdate

\* C9: a record of the station query has a countdown only when its track
\* record is one at the queried station; a train known at the station from the
\* crowding feed alone has countDown null.
C9_NoCountdownFromAnotherStation ==
    (response.route = "station" /\ response.status = 200) =>
        \A i \in DOMAIN response.trains :
            LET e == response.trains[i]
            IN e.countDown # null =>
                  /\ e.rawTrack # NullRow
                  /\ e.rawTrack.StationName = stationIdToName(response.stationId)

\* C17: a GET of /api/station/:stationId or of /api/trains leaves every field
\* of the cache as it was and starts no upstream request, whatever the cache
\* holds and whether or not an update cycle is in flight.
C17_QueriesLeaveCacheAlone ==
    [][(response' # response /\ response'.route \in {"station", "trains"})
          => /\ cache' = cache
             /\ pc' = pc
             /\ clock' = clock
             /\ origin' = origin]_vars

\* a station query was answered from a filled cache while an update cycle was
\* waiting for its requests
C17_Witness ==
    /\ variant = "srv"
    /\ response.route = "station"
    /\ response.status = 200
    /\ response.count > 0
    /\ cache.ok
    /\ pc = "fetching"

\* C19: a cycle whose TrackInfo answer was an HTML error page is recorded as
\* a failure (cache.ok is not true); it is not a successful empty result.
C19_ErrorPageIsFailure ==
    (variant = "srv" /\ "track" \in lastCycle.failed) => ~cache.ok

\* C21: the station query returns every track record whose station name,
\* without surrounding white space and without the trailing station glyph, is
\* the canonical name of the queried code.
C21_StationResolvedByNormalizedName ==
    (variant = "srv" /\ response.route = "station" /\ response.status = 200) =>
        \A k \in DOMAIN cache.trackInfo :
            (/\ cache.trackInfo[k] # NullRow
             /\ ReplaceTrailingZhan(Trim(cache.trackInfo[k].StationName))
                   = stationIdToName(response.stationId))
            => \E i \in DOMAIN response.trains :
                  response.trains[i].rawTrack = cache.trackInfo[k]

\* C13: the result of a station query has no two entries with the same
\* non-empty trainNumber, whatever rows the track and crowd lists repeat.
C13_NoDuplicateTrainNumber ==
    (response.route = "station" /\ response.status = 200) =>
        \A i, j \in DOMAIN response.trains :
            (/\ response.trains[i].trainNumber # <<>>
             /\ response.trains[i].trainNumber = response.trains[j].trainNumber)
            => i = j

RECURSIVE StripLeadingZeros(_)
StripLeadingZeros(s) ==
    IF Len(s) > 1 /\ s[1] = "0" THEN StripLeadingZeros(Tail(s)) ELSE s

\* C14: a track record gets the crowd record of its train when the two train
\* numbers differ only in leading zeros ('7' and '007').
C14_ZeroPaddingTolerated ==
    (variant = "srv" /\ cache.ok /\ origin.merged = origin.carWeight) =>
        \A i \in DOMAIN cache.merged :
            (/\ cache.merged[i].trainNumber # <<>>
             /\ \E k \in DOMAIN cache.carWeight :
                   /\ TrainNum(cache.carWeight[k]) # <<>>
                   /\ StripLeadingZeros(TrainNum(cache.carWeight[k]))
                         = StripLeadingZeros(cache.merged[i].trainNumber))
            => /\ cache.merged[i].rawCrowd # NullRow
               /\ StripLeadingZeros(TrainNum(cache.merged[i].rawCrowd))
                     = StripLeadingZeros(cache.merged[i].trainNumber)

\* C31: the list mergeTrackAndWeight publishes has one entry per track
\* record, in the order of the track list: the i-th entry is made from the
\* i-th record and carries its station, destination and countdown, with or
\* without a crowd record
C31_OneEntryPerTrackRecord ==
    (variant = "srv" /\ cache.ok /\ origin.merged = origin.trackInfo) =>
        /\ Len(cache.merged) = Len(cache.trackInfo)
        /\ \A i \in DOMAIN cache.merged :
              LET row == cache.trackInfo[i]
                  e == cache.merged[i]
              IN /\ e.rawTrack = row
                 /\ ~Falsy(row.StationName) => e.stationName = row.StationName
                 /\ ~Falsy(row.DestinationName) => e.destinationName = row.DestinationName
                 /\ ~Falsy(row.CountDown) => e.countDown = row.CountDown

\* the track list held train 7 and then train 132, the only crowd record was
\* one of train 132, and the published list has both trains in that order
C31_Witness ==
    /\ variant = "srv"
    /\ cache.ok
    /\ origin.merged = origin.trackInfo
    /\ Len(cache.trackInfo) = 2
    /\ cache.trackInfo[1] # cache.trackInfo[2]
    /\ Len(cache.merged) = 2
    /\ cache.merged[1].rawCrowd = NullRow
    /\ cache.merged[2].rawCrowd # NullRow

\* the crowd records that carry the train number num, at any station
CrowdOfTrain(num) ==
    {cache.carWeight[k] : k \in {j \in DOMAIN cache.carWeight :
                                    Trim(String(cache.carWeight[j].TrainNumber)) = num}}

\* C29: in the answer of /api/station/:id an entry made from a track record
\* carries a crowd record of its train number: the one of the queried station
\* when there is one, otherwise one of another station; rawCrowd is null only
\* when no crowd record at all carries the train number
C29_CrowdAttachedAcrossStations ==
    (variant = "srv" /\ response.route = "station" /\ response.status = 200) =>
        \A i \in DOMAIN response.trains :
            LET e == response.trains[i]
                ofTrain == CrowdOfTrain(e.trainNumber)
                here == {w \in ofTrain : w.StationID = response.stationId}
            IN e.rawTrack # NullRow =>
                  /\ (e.rawCrowd = NullRow) <=> (ofTrain = {})
                  /\ here # {} => e.rawCrowd \in here
                  /\ (here = {} /\ ofTrain # {}) => e.rawCrowd \in ofTrain

\* BL14 is asked for, train 132 is at Zhongxiao Xinsheng, the only crowd
\* record of train 132 is the one of BL12, and the entry carries it
C29_Witness ==
    /\ variant = "srv"
    /\ response.route = "station"
    /\ response.status = 200
    /\ response.stationId = S_BL14
    /\ cache.carWeight = <<WeightRow(S_132, S_BL12)>>
    /\ Len(response.trains) = 1
    /\ response.trains[1].rawTrack.StationName = S_ZhongxiaoXinsheng
    /\ response.trains[1].rawCrowd = WeightRow(S_132, S_BL12)

(***************************************************************************)
(* part_001: updateAll with fetchApi, high-capacity and Wenhu crowd feeds  *)
(***************************************************************************)
\* Da'an (U+5927 U+5B89), with and without the station suffix
S_Daan == <<"da", "an">>
S_DaanZhan == <<"da", "an", "zhan">>
\* Taipei Zoo (U+52D5 U+7269 U+5712)
S_Zoo == <<"dong", "wu", "yuan">>
\* Nangang Exhibition Center (U+5357 U+6E2F U+5C55 U+89BD U+9928)
S_NangangExhibition == <<"nan", "gang", "zhan_exh", "lan", "guan">>
\* the direction indicators: up (U+4E0A U+884C) and down (U+4E0B U+884C)
S_Up == <<"shang", "xing">>
S_Down == <<"xia", "xing">>

\* part_001: fetchApi, from what axios.post did: a transport error is caught
\* and answered with an empty list
fetchApi(outcome) == IF outcome.error THEN <<>> ELSE outcome.data

\* weightMapById.get(tNum): the last row with that (truthy) train number
RECURSIVE WeightMapByIdGet(_, _)
WeightMapByIdGet(wEx, tNum) ==
    IF wEx = <<>> THEN UndefinedRow
    ELSE LET w == wEx[Len(wEx)]
         IN IF ~Falsy(w.TrainNumber) /\ Trim(String(w.TrainNumber)) = tNum THEN w
            ELSE WeightMapByIdGet(SubSeq(wEx, 1, Len(wEx) - 1), tNum)

\* the direction key of a Wenhu crowd row, from its DU field
DirKeyOfDU(w) ==
    LET du == OrElse(w.DU, <<>>)
    IN IF Includes(du, <<"xia">>) THEN "ToNangang"
       ELSE IF Includes(du, <<"shang">>) THEN "ToZoo"
       ELSE ""

\* the direction key of a track record, from its destination
DirKeyOfDestination(t) ==
    IF Includes(t.DestinationName, <<"nan", "gang">>) THEN "ToNangang"
    ELSE IF Includes(t.DestinationName, S_Zoo) THEN "ToZoo"
    ELSE ""

\* the lookup of the Wenhu crowd row by station alone
RECURSIVE WenhuMapGet_anyDirection(_, _, _)
WenhuMapGet_anyDirection(wBr, cleanStation, dirKey) ==
    IF wBr = <<>> THEN UndefinedRow
    ELSE LET w == wBr[Len(wBr)]
             cleanName == normalizeStation(OrElse(w.StationName, <<>>))
         IN IF cleanName # <<>> /\ DirKeyOfDU(w) # "" /\ cleanName = cleanStation
            THEN w
            ELSE WenhuMapGet_anyDirection(SubSeq(wBr, 1, Len(wBr) - 1), cleanStation, dirKey)

\* wenhuMap.get(`${cleanStation}_${dirKey}`): the last row with that key.  The
\* key is the name, "_" and one of ToNangang / ToZoo: two keys are equal
\* exactly when their names and their directions are.
RECURSIVE WenhuMapGet(_, _, _)
WenhuMapGet(wBr, cleanStation, dirKey) ==
    IF wBr = <<>> THEN UndefinedRow
    ELSE LET w == wBr[Len(wBr)]
             cleanName == normalizeStation(OrElse(w.StationName, <<>>))
         IN IF cleanName # <<>> /\ DirKeyOfDU(w) # "" /\ cleanName = cleanStation
               /\ DirKeyOfDU(w) = dirKey
            THEN w
            ELSE WenhuMapGet(SubSeq(wBr, 1, Len(wBr) - 1), cleanStation, dirKey)

\* part_001 line 127: the track record is taken to be one of the Wenhu line
IsWenhu(t) ==
    \/ t.LineId = <<"B", "R">>
    \/ Includes(t.DestinationName, S_Zoo)
    \/ (Includes(t.DestinationName, S_NangangExhibition)
        /\ Trim(String(OrElse(t.TrainNumber, <<>>))) = <<>>)

\* part_001 lines 121-159: one merged entry per track record
MergeEntry(t, wEx, wBr) ==
    LET tNum == Trim(String(OrElse(t.TrainNumber, <<>>)))
        cleanStation == normalizeStation(t.StationName)
        dirKey == DirKeyOfDestination(t)
        wData == IF IsWenhu(t)
                 THEN IF cleanStation # <<>> /\ dirKey # ""
                      THEN WenhuMapGet(wBr, cleanStation, dirKey)
                      ELSE NullRow
                 ELSE IF tNum # <<>> THEN WeightMapByIdGet(wEx, tNum) ELSE NullRow
    IN [trainNumber |-> tNum,
        stationName |-> t.StationName,
        destinationName |-> t.DestinationName,
        countDown |-> t.CountDown,
        rawCrowd |-> wData]

\* a TypeError in the body of updateAll: a null element in a list, or a track
\* record without DestinationName (.includes of undefined)
UpdateAllThrows_p1(trackList, wEx, wBr) ==
    \/ HasNull(wEx)
    \/ HasNull(wBr)
    \/ HasNull(trackList)
    \/ \E i \in DOMAIN trackList : trackList[i].DestinationName \in {null, undefined}

TrackRow_p1(num, station, dest, countDown) ==
    [TrainNumber |-> num, StationName |-> station, DestinationName |-> dest,
     CountDown |-> countDown, LineId |-> undefined]

Track132_p1 == TrackRow_p1(S_132, S_TaipeiMain, S_NangangExhibition, S_0128)
TrackDaanZoo == TrackRow_p1(<<>>, S_DaanZhan, S_Zoo, S_0310)
TrackDaanNangang == TrackRow_p1(<<>>, S_Daan, S_NangangExhibition, S_0128)
TrackNoDestination == TrackRow_p1(S_132, S_TaipeiMain, undefined, S_0128)

\* the track lists the feed answers with, a null element and a record
\* without DestinationName among them
TrackRows_p1 ==
    { <<>>, <<Track132_p1>>, <<TrackDaanZoo>>, <<TrackDaanNangang>>, <<NullRow>>,
      <<TrackNoDestination>>, <<Track132_p1, TrackDaanZoo>> }

WeightExRows == { <<>>, <<[TrainNumber |-> S_132pad, Car1 |-> <<"2">>]>> }

DaanUp == [StationName |-> S_Daan, DU |-> S_Up, Car1 |-> <<"1">>]
DaanDown == [StationName |-> S_Daan, DU |-> S_Down, Car1 |-> <<"3">>]
ZooUp == [StationName |-> S_Zoo, DU |-> S_Up, Car1 |-> <<"2">>]

WeightBrRows ==
    { <<>>, <<DaanUp>>, <<DaanDown>>, <<DaanDown, DaanUp>>, <<ZooUp, DaanDown>> }

\* what axios.post did for one request: a payload, or a transport error
Outcomes(lists) ==
    {[error |-> FALSE, data |-> l] : l \in lists}
        \cup {[error |-> TRUE, data |-> <<>>]}

EmptyCache_p1 == [lastUpdate |-> 0, merged |-> <<>>, ok |-> FALSE]

Init_p1 ==
    /\ variant = "p1"
    /\ hasCreds \in BOOLEAN
    /\ cache = EmptyCache_p1
    /\ clock = 0
    /\ pc = "idle"
    /\ response = NoResponse
    /\ origin = NoOrigin
    /\ lastCycle = NoCycle
    /\ Idle_tdx
    /\ Idle_norm

\* updateAll without credentials: line 82
UpdateAllNoCreds_p1 ==
    /\ pc = "idle"
    /\ ~hasCreds
    /\ UNCHANGED <<vars_run, lastCycle, frame_p1>>

\* updateAll up to its await: the three requests are sent
UpdateAllBegin_p1 ==
    /\ pc = "idle"
    /\ hasCreds
    /\ clock < MaxCycles
    /\ pc' = "fetching"
    /\ UNCHANGED <<hasCreds, cache, clock, response, lastCycle, frame_p1>>

\* updateAll after its await: lines 91-166; a TypeError leaves the cache as it is
UpdateAllResume_p1(oTrack, oEx, oBr) ==
    /\ pc = "fetching"
    /\ LET trackList == fetchApi(oTrack)
           wEx == fetchApi(oEx)
           wBr == fetchApi(oBr)
       IN /\ clock' = clock + 1
          /\ cache' = IF UpdateAllThrows_p1(trackList, wEx, wBr) THEN cache
                      ELSE [merged |-> [i \in DOMAIN trackList |->
                                            MergeEntry(trackList[i], wEx, wBr)],
                            lastUpdate |-> clock',
                            ok |-> TRUE]
    /\ lastCycle' = [failed |-> {f \in {"track", "ex", "br"} :
                                    \/ f = "track" /\ oTrack.error
                                    \/ f = "ex" /\ oEx.error
                                    \/ f = "br" /\ oBr.error},
                     before |-> cache.merged,
                     published |-> ~UpdateAllThrows_p1(fetchApi(oTrack), fetchApi(oEx),
                                                       fetchApi(oBr)),
                     track |-> fetchApi(oTrack),
                     br |-> fetchApi(oBr)]
    /\ pc' = "idle"
    /\ response' = NoResponse
    /\ UNCHANGED <<hasCreds, frame_p1>>

\* GET /api/trains
GetTrains_p1 ==
    /\ pc \in {"idle", "fetching"}
    /\ response' = [route |-> "trains", status |-> 200, success |-> cache.ok,
                    lastUpdate |-> cache.lastUpdate,
                    count |-> Len(cache.merged), data |-> cache.merged]
    /\ UNCHANGED <<hasCreds, cache, clock, pc, lastCycle, frame_p1>>

Next_p1 ==
    \/ UpdateAllNoCreds_p1
    \/ UpdateAllBegin_p1
    \/ \E oTrack \in Outcomes(TrackRows_p1), oEx \in Outcomes(WeightExRows),
          oBr \in Outcomes(WeightBrRows) : UpdateAllResume_p1(oTrack, oEx, oBr)
    \/ GetTrains_p1

SpecP1 == Init_p1 /\ [][Next_p1]_vars

\* C2: an update cycle in which a fetch failed with a transport error is
\* skipped: the list /api/trains serves after the cycle is the list it served
\* before it.
C2_TransportFailureKeepsList ==
    (variant = "p1" /\ lastCycle.failed # {}) => cache.merged = lastCycle.before

\* C18: whatever the feeds carry (a null element, a record without
\* DestinationName), a cycle that got its three answers runs to its end and
\* publishes a list; none ends in an exception.
C18_MalformedFeedCompletes ==
    (variant = "p1" /\ lastCycle # NoCycle) => lastCycle.published

\* the crowd rows of the last cycle that a Wenhu track record matches: same
\* normalised station, same direction
MatchingWenhuRows(t) ==
    {k \in DOMAIN lastCycle.br :
        /\ normalizeStation(OrElse(lastCycle.br[k].StationName, <<>>)) # <<>>
        /\ normalizeStation(OrElse(lastCycle.br[k].StationName, <<>>))
              = normalizeStation(t.StationName)
        /\ DirKeyOfDU(lastCycle.br[k]) # ""
        /\ DirKeyOfDU(lastCycle.br[k]) = DirKeyOfDestination(t)}

\* C11: in the Wenhu branch a track record gets the crowd record of its own
\* normalised station and of the direction of its destination when the feed
\* has one, and no crowd record otherwise: never one of the opposite direction
\* or of another station.
C11_WenhuMatchesStationAndDirection ==
    (variant = "p1" /\ lastCycle.published) =>
        \A i \in DOMAIN cache.merged :
            IsWenhu(lastCycle.track[i]) =>
                IF MatchingWenhuRows(lastCycle.track[i]) = {}
                THEN FalsyRow(cache.merged[i].rawCrowd)
                ELSE \E k \in MatchingWenhuRows(lastCycle.track[i]) :
                        cache.merged[i].rawCrowd = lastCycle.br[k]

\* a cycle read the crowd rows of Da'an in both directions and published the
\* track record of the train at Da'an bound for the zoo with the row towards
\* the zoo attached
C11_Witness ==
    /\ variant = "p1"
    /\ lastCycle.published
    /\ lastCycle.track = <<TrackDaanZoo>>
    /\ lastCycle.br = <<DaanDown, DaanUp>>
    /\ Len(cache.merged) = 1
    /\ cache.merged[1].rawCrowd = DaanUp

(***************************************************************************)
(* The TDX revisions (part_002, part_006, part_007): JavaScript numbers    *)
(***************************************************************************)
\* a JSON value that may be a number, a string or absent
JsNum(n) == [kind |-> "number", num |-> n, str |-> <<>>]
JsStr(s) == [kind |-> "string", num |-> 0, str |-> s]
JsUndefined == [kind |-> "undefined", num |-> 0, str |-> <<>>]
NaN == [kind |-> "NaN", num |-> 0, str |-> <<>>]

\* a JSON value in a JavaScript condition
JsTruthy(v) ==
    \/ v.kind = "number" /\ v.num # 0
    \/ v.kind = "string" /\ v.str # <<>>

Digits == <<"0", "1", "2", "3", "4", "5", "6", "7", "8", "9">>

IsDigit(c) == \E d \in DOMAIN Digits : Digits[d] = c

DigitValue(c) == (CHOOSE d \in DOMAIN Digits : Digits[d] = c) - 1

RECURSIVE DecimalValue(_)
DecimalValue(s) ==
    IF s = <<>> THEN 0
    ELSE DecimalValue(SubSeq(s, 1, Len(s) - 1)) * 10 + DigitValue(s[Len(s)])

\* Number(v): a number is itself, undefined is NaN, a string is trimmed and
\* read as a decimal literal (the empty string is 0, anything else is NaN)
Number(v) ==
    IF v.kind = "number" THEN v
    ELSE IF v.kind = "string"
    THEN LET t == Trim(v.str)
         IN IF \A i \in DOMAIN t : IsDigit(t[i]) THEN JsNum(DecimalValue(t)) ELSE NaN
    ELSE NaN

\* Number(v) || 0
NumberOrZero(v) ==
    LET n == Number(v) IN IF n.kind = "NaN" THEN 0 ELSE n.num

\* Math.floor(seconds / 60)
FloorMinutes(seconds) == seconds \div 60

Abs(x) == IF x < 0 THEN -x ELSE x

S_BL == <<"B", "L">>
S_Unknown == <<"U", "n", "k", "n", "o", "w", "n">>
S_unknownZh == <<"wei", "zhi">>
\* the arriving sentinel of the countdown field
S_Arriving == <<"lie", "che", "jin", "zhan">>

MaxTokens == 2

\* a cycle that asks for a token whether or not one is cached
NoTokenCached_always(a) == TRUE

\* if (!authToken), line 53 of part_007 and line 58 of part_009
NoTokenCached(a) == a.token = 0

\* getAuthToken, lines 26-49 of part_007 (26-41 of part_002): it succeeds when
\* the credentials are set and the token request is answered
AuthGranted(a, ok) == hasCreds /\ ok /\ a.issued < MaxTokens

getAuthToken(a, ok) ==
    IF AuthGranted(a, ok)
    THEN [token |-> a.issued + 1, issued |-> a.issued + 1]
    ELSE a

\* the answers of the token request a fetch makes: there is one to choose
\* only when the request is made
TokenAnswers(requested) == IF requested THEN BOOLEAN ELSE {FALSE}

\* a LiveBoard item; StationName and DestinationStationName hold their Zh_tw
LiveItem(dest, est, lineNo) ==
    [StationID |-> S_BL12, StationName |-> S_TaipeiMain,
     DestinationStationName |-> dest, DestinationStationID |-> S_BL99,
     EstimateTime |-> est, LineNO |-> undefined, LineNo |-> lineNo]

(***************************************************************************)
(* part_007: fetchTDXData and /api/trains                                  *)
(***************************************************************************)
\* lines 14-21
EmptyCache_p7 ==
    [success |-> FALSE, message |-> "starting", data |-> <<>>, lastUpdated |-> 0,
     rawError |-> "null"]

\* lines 83-98: one processed entry
ProcessItem_p7(item) ==
    [stationID |-> item.StationID,
     stationName |-> OrElse(item.StationName, OrElse(item.StationID, S_unknownZh)),
     destination |-> OrElse(item.DestinationStationName,
                            OrElse(item.DestinationStationID, S_unknownZh)),
     time |-> FloorMinutes(NumberOrZero(item.EstimateTime)),
     lineNo |-> item.LineNo,
     crowdLevel |-> "LOW"]

LiveRows_p7 ==
    {LiveItem(S_Nangang, JsNum(300), S_BL),
     LiveItem(S_Dingpu, JsStr(S_0128), S_BL),
     LiveItem(undefined, JsStr(S_Arriving), undefined),
     NullRow}

\* what the LiveBoard request can come back with
LiveOutcomes(rows) ==
    {[kind |-> "data", status |-> 200, data |-> l] : l \in ListsUpTo(rows, MaxRows)}
    \cup {[kind |-> "notArray", status |-> 200, data |-> <<>>]}
    \cup {[kind |-> "error", status |-> st, data |-> <<>>] : st \in {0, 401, 429}}

\* no cycle yet: how the last cycle ended, cache.success before it, whether a
\* token was cached when it began, the status of its data request (-1: none
\* was made) and how often it called getAuthToken
NoCycle_p7 == [result |-> "none", okBefore |-> FALSE, held |-> FALSE, status |-> -1,
               tokenCalls |-> 0]

Init_p7 ==
    /\ variant = "p7"
    /\ hasCreds \in BOOLEAN
    /\ cache = EmptyCache_p7
    /\ clock = 0
    /\ pc = "idle"
    /\ response = NoResponse
    /\ auth = NoAuth
    /\ liveBoardData = <<>>
    /\ staticTimetable = <<>>
    /\ fetches = {}
    /\ origin = NoOrigin
    /\ lastCycle = NoCycle_p7
    /\ Idle_norm

\* fetchTDXData, lines 52-126.  tokenOk answers the token request made when no
\* token is held, retryOk the one made after a 401.
FetchTDXData(tokenOk, retryOk, outcome) ==
    LET held == IF NoTokenCached(auth) THEN getAuthToken(auth, tokenOk) ELSE auth
        Cycle(result) ==
            [result |-> result, okBefore |-> cache.success, held |-> auth.token # 0,
             status |-> IF held.token = 0 THEN -1 ELSE outcome.status,
             tokenCalls |-> (IF NoTokenCached(auth) THEN 1 ELSE 0)
                            + (IF held.token # 0 /\ outcome.status = 401 THEN 1 ELSE 0)]
        thrown == outcome.kind = "data" /\ HasNull(outcome.data)
        updated == outcome.kind = "data" /\ outcome.data # <<>> /\ ~thrown
    IN /\ variant = "p7"
       /\ pc = "idle"
       /\ IF held.token = 0
          THEN \* lines 53-56: no token, the cycle returns
               /\ cache' = IF hasCreds THEN cache ELSE [cache EXCEPT !.message = "no-env"]
               /\ auth' = held
               /\ clock' = clock
               /\ lastCycle' = Cycle("failed")
          ELSE IF updated
          THEN \* lines 74-107
               /\ clock < MaxCycles
               /\ cache' = [success |-> TRUE, message |-> "updated",
                            data |-> [i \in DOMAIN outcome.data |->
                                         ProcessItem_p7(outcome.data[i])],
                            lastUpdated |-> clock + 1, rawError |-> "null"]
               /\ auth' = held
               /\ clock' = clock + 1
               /\ lastCycle' = Cycle("ok")
          ELSE IF outcome.kind = "error" \/ thrown
          THEN \* lines 112-125
               /\ cache' = [cache EXCEPT !.rawError =
                               IF outcome.status = 429 THEN "429" ELSE "other"]
               /\ auth' = IF outcome.status = 401
                          THEN getAuthToken([held EXCEPT !.token = 0], retryOk)
                          ELSE held
               /\ clock' = clock
               /\ lastCycle' = Cycle("failed")
          ELSE \* lines 108-110: an empty or malformed answer
               /\ cache' = cache
               /\ auth' = held
               /\ clock' = clock
               /\ lastCycle' = Cycle("failed")
       /\ response' = NoResponse
       /\ UNCHANGED <<hasCreds, pc, frame_p7>>

\* GET /api/trains, lines 137-143
GetTrains_p7 ==
    /\ variant = "p7"
    /\ pc = "idle"
    /\ response' = [route |-> "trains", status |-> 200, success |-> cache.success,
                    updatedAt |-> cache.lastUpdated, data |-> cache.data]
    /\ UNCHANGED <<hasCreds, cache, clock, pc, auth, lastCycle, frame_p7>>

Next_p7 ==
    \/ \E tokenOk \in BOOLEAN, retryOk \in BOOLEAN, outcome \in LiveOutcomes(LiveRows_p7) :
          FetchTDXData(tokenOk, retryOk, outcome)
    \/ GetTrains_p7

SpecP7 == Init_p7 /\ [][Next_p7]_vars

\* C3: once a cycle has succeeded, a /api/trains response sent after a failed
\* cycle does not carry the indicator of a fresh snapshot (success = true).
C3_FailureIsSurfaced ==
    (variant = "p7" /\ response.route = "trains"
        /\ lastCycle.result = "failed" /\ lastCycle.okBefore)
    => response.success # TRUE

(***************************************************************************)
(* part_009: fetchTDXData asks for the LiveBoard line by line, one cycle   *)
(* at a time, with a wait after every request                              *)
(***************************************************************************)
\* line 55
LINES == <<"BL", "R", "G", "O", "BR", "Y">>

LineIndex(lineId) == CHOOSE k \in DOMAIN LINES : LINES[k] = lineId

\* lines 14-21
EmptyCache_p9 ==
    [success |-> FALSE, message |-> "starting", data |-> <<>>, lastUpdated |-> 0,
     rawError |-> "null"]

\* lines 113-120: one processed entry; the time is the feed's EstimateTime
ProcessItem_p9(item) ==
    [stationID |-> item.StationID,
     stationName |-> OrElse(item.StationName, OrElse(item.StationID, S_unknownZh)),
     destination |-> OrElse(item.DestinationStationName,
                            OrElse(item.DestinationStationID, S_unknownZh)),
     time |-> IF JsTruthy(item.EstimateTime) THEN item.EstimateTime ELSE JsNum(0),
     lineNo |-> item.LineNo,
     crowdLevel |-> "LOW"]

\* the arrival a line's request is answered with
LineRow(lineId) == LiveItem(S_Nangang, JsNum(300), <<lineId>>)

\* what one line's request can come back with: its arrivals (the Blue and the
\* Red line have one here), an empty list, or an error status (0 is a
\* transport error)
LineOutcomes(lineId) ==
    {[kind |-> "data", status |-> 200, data |-> l] :
        l \in IF lineId \in {"BL", "R"} THEN {<<>>, <<LineRow(lineId)>>} ELSE {<<>>}}
    \cup {[kind |-> "error", status |-> st, data |-> <<>>] : st \in {0, 401, 429}}

\* no cycle yet.  phase: how far the last cycle got; held: a token was cached
\* when it began; tokenCalls: its calls of getAuthToken; requested: its
\* LiveBoard requests; status429 / wait429: it had a 429 answer, and the wait
\* after it; waitOther: the wait after its last answer that was not a 429 or
\* a 401; got: the lines that gave arrivals; allEmpty: every answer so far was
\* an empty list; sinceCall: the wait since the last LiveBoard request (-1:
\* there was none)
NoCycle_p9 ==
    [phase |-> "none", held |-> FALSE, tokenCalls |-> 0, unauthorized |-> 0,
     requested |-> 0, status429 |-> FALSE, wait429 |-> 0, waitOther |-> 0,
     got |-> <<>>, allEmpty |-> TRUE, sinceCall |-> -1]

Init_p9 ==
    /\ variant = "p9"
    /\ hasCreds \in BOOLEAN
    /\ cache = EmptyCache_p9
    /\ clock = 0
    /\ pc = "idle"
    /\ response = NoResponse
    /\ Idle_tdx
    /\ origin = NoOrigin
    /\ lastCycle = NoCycle_p9
    /\ Idle_norm

\* fetchTDXData up to its first LiveBoard request, lines 57-61.  tokenOk
\* answers the token request made when no token is cached.
FetchTDXDataBegin(tokenOk) ==
    LET held == IF NoTokenCached(auth) THEN getAuthToken(auth, tokenOk) ELSE auth
        began == [NoCycle_p9 EXCEPT
                     !.held = auth.token # 0,
                     !.tokenCalls = IF NoTokenCached(auth) THEN 1 ELSE 0,
                     !.sinceCall = lastCycle.sinceCall]
    IN /\ variant = "p9"
       /\ pc = "idle"
       /\ clock < MaxCycles
       /\ auth' = held
       /\ IF held.token = 0
          THEN /\ cache' = IF hasCreds THEN cache ELSE [cache EXCEPT !.message = "no-env"]
               /\ pc' = "idle"
               /\ lastCycle' = [began EXCEPT !.phase = "noToken"]
          ELSE /\ cache' = cache
               /\ pc' = LINES[1]
               /\ lastCycle' = [began EXCEPT !.phase = "running"]
       /\ liveBoardData' = <<>>
       /\ response' = NoResponse
       /\ UNCHANGED <<hasCreds, clock, staticTimetable, fetches, frame_p2>>

\* lines 118-132: the end of the cycle
Publish_p9(allData) ==
    IF allData # <<>>
    THEN [success |-> TRUE, message |-> "updated",
          data |-> [i \in DOMAIN allData |-> ProcessItem_p9(allData[i])],
          lastUpdated |-> clock + 1, rawError |-> "null"]
    ELSE [cache EXCEPT !.message = "no-data"]

\* the loop body with the same wait after a 429 as after any other answer
LoopDelay_same429(outcome) ==
    IF outcome.kind = "data" THEN 5000
    ELSE IF outcome.status = 401 THEN 0
    ELSE 5000

\* the wait of one pass through the loop body, lines 88 and 95-103: none
\* after a 401
LoopDelay(outcome) ==
    IF outcome.kind = "data" THEN 5000
    ELSE IF outcome.status = 429 THEN 10000
    ELSE IF outcome.status = 401 THEN 0
    ELSE 5000

\* one pass through the loop, lines 69-105: the request of the line pc names,
\* its answer, the wait, and after the last line the end of the cycle.
\* retryOk answers the token request made after a 401.
FetchLine(outcome, retryOk) ==
    LET allData == IF outcome.kind = "data" THEN liveBoardData \o outcome.data
                   ELSE liveBoardData
        last == LineIndex(pc) = Len(LINES)
    IN /\ variant = "p9"
       /\ pc \in {LINES[k] : k \in DOMAIN LINES}
       /\ outcome \in LineOutcomes(pc)
       /\ auth' = IF outcome.kind = "error" /\ outcome.status = 401
                  THEN getAuthToken([auth EXCEPT !.token = 0], retryOk)
                  ELSE auth
       /\ liveBoardData' = allData
       /\ cache' = IF last THEN Publish_p9(allData) ELSE cache
       /\ clock' = IF last /\ allData # <<>> THEN clock + 1 ELSE clock
       /\ pc' = IF last THEN "idle" ELSE LINES[LineIndex(pc) + 1]
       /\ lastCycle' =
            [lastCycle EXCEPT
                !.phase = IF last THEN "done" ELSE "running",
                !.requested = @ + 1,
                !.tokenCalls = IF outcome.status = 401 THEN @ + 1 ELSE @,
                !.unauthorized = IF outcome.status = 401 THEN @ + 1 ELSE @,
                !.status429 = @ \/ outcome.status = 429,
                !.wait429 = IF outcome.status = 429 THEN LoopDelay(outcome) ELSE @,
                !.waitOther = IF outcome.status \notin {401, 429}
                              THEN LoopDelay(outcome) ELSE @,
                !.got = IF outcome.kind = "data" /\ outcome.data # <<>>
                        THEN Append(@, pc) ELSE @,
                !.allEmpty = @ /\ outcome.kind = "data" /\ outcome.data = <<>>,
                !.sinceCall = LoopDelay(outcome)]
       /\ response' = NoResponse
       /\ UNCHANGED <<hasCreds, staticTimetable, fetches, frame_p2>>

\* GET /api/trains, lines 141-147
GetTrains_p9 ==
    /\ variant = "p9"
    /\ response' = [route |-> "trains", status |-> 200, success |-> cache.success,
                    updatedAt |-> cache.lastUpdated, data |-> cache.data]
    /\ UNCHANGED <<hasCreds, cache, clock, pc, auth, liveBoardData, staticTimetable,
                   fetches, lastCycle, frame_p2>>

Next_p9 ==
    \/ \E tokenOk \in BOOLEAN : FetchTDXDataBegin(tokenOk)
    \/ \E outcome \in UNION {LineOutcomes(LINES[k]) : k \in DOMAIN LINES},
          retryOk \in BOOLEAN : FetchLine(outcome, retryOk)
    \/ GetTrains_p9

SpecP9 == Init_p9 /\ [][Next_p9]_vars

\* the entries a cycle publishes for the lines that gave arrivals
PublishedFor(lines) == [i \in DOMAIN lines |-> ProcessItem_p9(LineRow(lines[i]))]

C26_MinimumWaitBetweenCalls ==
    (variant = "p9" /\ lastCycle.phase = "running" /\ lastCycle.requested > 0) =>
        lastCycle.sinceCall >= 5000

\* C28: when a cycle of part_009 ends with every line answered by an empty
\* list, the published data is empty
C28_EmptyCycleClearsData ==
    (variant = "p9" /\ lastCycle.phase = "done" /\ lastCycle.allEmpty) =>
        cache.data = <<>>

(***************************************************************************)
(* part_009 with its timer: setInterval(fetchTDXData, 75000) of line 138   *)
(* calls fetchTDXData every 75 s whether or not the call before it has     *)
(* returned.  Times are in ms; every call of fetchTDXData that is in       *)
(* progress is a record in fetches, and the calls act in the order of      *)
(* their times.                                                            *)
(***************************************************************************)
\* line 138
Period_p9 == 75000

\* how long the upstream takes to answer a LiveBoard request: at once, or
\* after 45 s (axios.get of line 71 is called without a timeout)
Latencies == {0, 45000}

\* times later than this are not told apart
TimeCap == 2 * Period_p9

\* the answers of a line's request followed here: its arrivals, an empty
\* list, or a 429
TimedOutcomes(lineId) ==
    {o \in LineOutcomes(lineId) : o.kind = "data" \/ o.status = 429}

\* a call of fetchTDXData in progress: the tick that started it, the line it
\* requests next (Len(LINES) + 1: the loop is over), the time since its start
\* at which it acts next, and its allData
Invocation(started, line, at, allData) ==
    [started |-> started, line |-> line, at |-> at, allData |-> allData]

\* the time at which a call acts next, from the start of the server
ActsAt(inv) == (inv.started - 1) * Period_p9 + inv.at

\* the call inv is the next to act: no other call and no tick is due first
Turn(inv) ==
    /\ \A other \in fetches : ActsAt(inv) <= ActsAt(other)
    /\ clock < MaxCycles => ActsAt(inv) < clock * Period_p9

\* the call whose list is published (0: none) and the latest-started call
\* whose list was ever published
NoOrigin_p9 == [published |-> 0, newest |-> 0]

Init_p9timer ==
    /\ variant = "p9"
    /\ hasCreds \in BOOLEAN
    /\ cache = EmptyCache_p9
    /\ clock = 0
    /\ pc = "idle"
    /\ response = NoResponse
    /\ Idle_tdx
    /\ origin = NoOrigin_p9
    /\ lastCycle = NoCycle_p9
    /\ Idle_norm

\* a tick of the timer (the first is the call of line 136): fetchTDXData up
\* to its loop, lines 57-67; clock counts the ticks
TimerFires(tokenOk) ==
    LET held == IF NoTokenCached(auth) THEN getAuthToken(auth, tokenOk) ELSE auth
    IN /\ variant = "p9"
       /\ clock < MaxCycles
       /\ \A inv \in fetches : ActsAt(inv) >= clock * Period_p9
       /\ clock' = clock + 1
       /\ auth' = held
       /\ IF held.token = 0
          THEN /\ cache' = IF hasCreds THEN cache ELSE [cache EXCEPT !.message = "no-env"]
               /\ fetches' = fetches
          ELSE /\ cache' = cache
               /\ fetches' = fetches \cup {Invocation(clock + 1, 1, 0, <<>>)}
       /\ response' = NoResponse
       /\ UNCHANGED <<hasCreds, pc, liveBoardData, staticTimetable, lastCycle, frame_p2>>

\* one pass of the call inv through the loop body, lines 69-105: the request,
\* its answer after took ms, and the wait
LineStep(inv, outcome, took, retryOk) ==
    LET spent == inv.at + took + LoopDelay(outcome)
    IN /\ variant = "p9"
       /\ inv \in fetches
       /\ inv.line <= Len(LINES)
       /\ Turn(inv)
       /\ outcome \in TimedOutcomes(LINES[inv.line])
       /\ auth' = IF outcome.kind = "error" /\ outcome.status = 401
                  THEN getAuthToken([auth EXCEPT !.token = 0], retryOk)
                  ELSE auth
       /\ fetches' = (fetches \ {inv}) \cup
                        {Invocation(inv.started, inv.line + 1,
                                    IF spent > TimeCap THEN TimeCap ELSE spent,
                                    IF outcome.kind = "data"
                                    THEN inv.allData \o outcome.data
                                    ELSE inv.allData)}
       /\ response' = NoResponse
       /\ UNCHANGED <<hasCreds, cache, clock, pc, liveBoardData, staticTimetable,
                      lastCycle, frame_p2>>

\* the end of the call inv, lines 111-133
CycleEnds(inv) ==
    /\ variant = "p9"
    /\ inv \in fetches
    /\ inv.line = Len(LINES) + 1
    /\ Turn(inv)
    /\ fetches' = fetches \ {inv}
    /\ IF inv.allData # <<>>
       THEN /\ cache' = [Publish_p9(inv.allData) EXCEPT !.lastUpdated = ActsAt(inv)]
            /\ origin' = [published |-> inv.started,
                          newest |-> IF inv.started > origin.newest
                                     THEN inv.started ELSE origin.newest]
       ELSE /\ cache' = Publish_p9(inv.allData)
            /\ origin' = origin
    /\ response' = NoResponse
    /\ UNCHANGED <<hasCreds, clock, pc, auth, liveBoardData, staticTimetable,
                   lastCycle, variant, vars_norm>>

Next_p9timer ==
    \/ \E tokenOk \in TokenAnswers(auth.token = 0) : TimerFires(tokenOk)
    \/ \E inv \in fetches, took \in Latencies,
          outcome \in UNION {TimedOutcomes(LINES[k]) : k \in DOMAIN LINES} :
          \E retryOk \in TokenAnswers(outcome.status = 401) :
             LineStep(inv, outcome, took, retryOk)
    \/ \E inv \in fetches : CycleEnds(inv)
    \/ GetTrains_p9

SpecP9Timer == Init_p9timer /\ [][Next_p9timer]_vars

\* C32: at most one call of fetchTDXData is in progress at any time, and the
\* published list is that of the latest-started call among those that
\* published: a call that started earlier never publishes after one that
\* started later
C32_CyclesNeverOverlap ==
    variant = "p9" =>
        /\ Cardinality(fetches) <= 1
        /\ origin.published = origin.newest

(***************************************************************************)
(* The token of part_007 and of part_009                                   *)
(***************************************************************************)
Init_auth == Init_p7 \/ Init_p9

Next_auth == Next_p7 \/ Next_p9

SpecAuth == Init_auth /\ [][Next_auth]_vars

\* C23: getAuthToken is called only when no token is cached at the start of
\* a cycle or right after a data request answered with 401; a cycle that began
\* with a token and had no 401 answer calls it not at all.
C23_TokenOnlyReactively ==
    /\ variant = "p7" =>
          /\ (lastCycle.held /\ lastCycle.status # 401) => lastCycle.tokenCalls = 0
          /\ lastCycle.tokenCalls
               = (IF lastCycle.result # "none" /\ ~lastCycle.held THEN 1 ELSE 0)
                 + (IF lastCycle.status = 401 THEN 1 ELSE 0)
    /\ variant = "p9" =>
          /\ (lastCycle.held /\ lastCycle.unauthorized = 0) => lastCycle.tokenCalls = 0
          /\ lastCycle.tokenCalls
               = (IF lastCycle.phase # "none" /\ ~lastCycle.held THEN 1 ELSE 0)
                 + lastCycle.unauthorized

\* a cycle of part_009 that began with a token asked for all six lines, got a
\* 429 and a transport error among the answers, and asked for no token
C23_Witness ==
    /\ variant = "p9"
    /\ lastCycle.phase = "done"
    /\ lastCycle.held
    /\ lastCycle.requested = Len(LINES)
    /\ lastCycle.status429
    /\ lastCycle.got # <<>>
    /\ lastCycle.tokenCalls = 0

(***************************************************************************)
(* part_002 and part_006: the LiveBoard + timetable hybrid.  The two       *)
(* revisions differ in the dedup tolerance and in what /api/trains reports *)
(* as success; line numbers are those of part_002.                         *)
(***************************************************************************)
Tolerance_p2 == 4
Tolerance_p6 == 5
Lookahead == 60

DedupTolerance == IF variant = "p2" THEN Tolerance_p2 ELSE Tolerance_p6

\* lines 12-19 (lastUpdated -1 is null)
EmptyCache_p2 ==
    [success |-> FALSE, message |-> "starting", data |-> <<>>, lastUpdated |-> -1,
     liveBoardCount |-> 0, timetableCount |-> 0]

\* StationID.match(/^([A-Z]+)/)?.[1]: the leading upper-case letters
UpperLetters ==
    {"A", "B", "C", "D", "E", "F", "G", "H", "I", "J", "K", "L", "M",
     "N", "O", "P", "Q", "R", "S", "T", "U", "V", "W", "X", "Y", "Z"}

IsUpper(c) == c \in UpperLetters

RECURSIVE LeadingUpper(_)
LeadingUpper(s) ==
    IF s = <<>> \/ ~IsUpper(s[1]) THEN <<>>
    ELSE <<s[1]>> \o LeadingUpper(SubSeq(s, 2, Len(s)))

\* lines 90-93 and 112-115: the line code of an item
LineNoOf(item) ==
    LET lineNo == OrElse(item.LineNO, item.LineNo)
    IN IF Falsy(lineNo) /\ ~Falsy(item.StationID)
       THEN (IF LeadingUpper(item.StationID) = <<>> THEN S_Unknown
             ELSE LeadingUpper(item.StationID))
       ELSE lineNo

\* lines 84-104: one live entry
LiveEntry(item) ==
    [stationID |-> item.StationID,
     stationName |-> item.StationName,
     destination |-> item.DestinationStationName,
     lineNo |-> LineNoOf(item),
     time |-> FloorMinutes(NumberOrZero(item.EstimateTime)),
     crowdLevel |-> "LOW",
     type |-> "live"]

\* s.split(sep)
RECURSIVE Split(_, _)
Split(s, sep) ==
    IF \A i \in DOMAIN s : s[i] # sep THEN <<s>>
    ELSE LET i == CHOOSE k \in DOMAIN s : s[k] = sep /\ \A j \in 1..(k - 1) : s[j] # sep
         IN <<SubSeq(s, 1, i - 1)>> \o Split(SubSeq(s, i + 1, Len(s)), sep)

\* lines 118-119: const [h, m] = t.ArrivalTime.split(':').map(Number); h * 60 + m
TrainMin(arrivalTime) ==
    LET parts == Split(arrivalTime, ":")
        h == Number(JsStr(parts[1]))
        m == IF Len(parts) >= 2 THEN Number(JsStr(parts[2])) ELSE NaN
    IN IF h.kind = "NaN" \/ m.kind = "NaN" THEN NaN ELSE JsNum(h.num * 60 + m.num)

\* the duplicate test with a tolerance one minute short
isDup_short(finalData, st, diff) ==
    \E i \in DOMAIN finalData :
        /\ finalData[i].stationID = st.StationID
        /\ finalData[i].destination = st.DestinationStationName
        /\ Abs(finalData[i].time - diff) < DedupTolerance - 1

\* lines 123-127
isDup(finalData, st, diff) ==
    \E i \in DOMAIN finalData :
        /\ finalData[i].stationID = st.StationID
        /\ finalData[i].destination = st.DestinationStationName
        /\ Abs(finalData[i].time - diff) < DedupTolerance

\* the timetable entries of one station with no test that the clock time is
\* after now
RECURSIVE AddTimetables_anyEarlier(_, _, _, _)
AddTimetables_anyEarlier(finalData, st, times, currentMin) ==
    IF times = <<>> THEN finalData
    ELSE LET trainMin == TrainMin(times[1].ArrivalTime)
             inWindow == /\ trainMin.kind = "number"
                         /\ trainMin.num <= currentMin + Lookahead
             diff == trainMin.num - currentMin
             next == IF inWindow /\ ~isDup(finalData, st, diff)
                     THEN Append(finalData,
                                 [stationID |-> st.StationID,
                                  stationName |-> st.StationName,
                                  destination |-> st.DestinationStationName,
                                  lineNo |-> LineNoOf(st),
                                  time |-> diff,
                                  crowdLevel |-> "LOW",
                                  type |-> "schedule"])
                     ELSE finalData
         IN AddTimetables_anyEarlier(next, st, SubSeq(times, 2, Len(times)), currentMin)

\* lines 117-141: the timetable entries of one station, in order
RECURSIVE AddTimetables(_, _, _, _)
AddTimetables(finalData, st, times, currentMin) ==
    IF times = <<>> THEN finalData
    ELSE LET trainMin == TrainMin(times[1].ArrivalTime)
             inWindow == /\ trainMin.kind = "number"
                         /\ trainMin.num > currentMin
                         /\ trainMin.num <= currentMin + Lookahead
             diff == trainMin.num - currentMin
             next == IF inWindow /\ ~isDup(finalData, st, diff)
                     THEN Append(finalData,
                                 [stationID |-> st.StationID,
                                  stationName |-> st.StationName,
                                  destination |-> st.DestinationStationName,
                                  lineNo |-> LineNoOf(st),
                                  time |-> diff,
                                  crowdLevel |-> "LOW",
                                  type |-> "schedule"])
                     ELSE finalData
         IN AddTimetables(next, st, SubSeq(times, 2, Len(times)), currentMin)

\* lines 107-143: every station of the timetable, in order
RECURSIVE AddStations(_, _, _)
AddStations(finalData, stations, currentMin) ==
    IF stations = <<>> THEN finalData
    ELSE AddStations(AddTimetables(finalData, stations[1], stations[1].Timetables, currentMin),
                     SubSeq(stations, 2, Len(stations)), currentMin)

\* calculateData with finalData kept from one run to the next
calculateData_keeping(live, timetable, currentMin) ==
    AddStations(cache.data \o [i \in DOMAIN live |-> LiveEntry(live[i])], timetable,
                currentMin)

\* lines 76-145: the list calculateData publishes
calculateData(live, timetable, currentMin) ==
    AddStations([i \in DOMAIN live |-> LiveEntry(live[i])], timetable, currentMin)

\* clock texts of the timetable
S_2336 == <<"2", "3", ":", "3", "6">>
S_2338 == <<"2", "3", ":", "3", "8">>
S_0010 == <<"0", "0", ":", "1", "0">>

\* a StationTimeTable record; a record without Timetables (line 109) adds
\* nothing, as one with an empty list
TimetableStation(dest, times) ==
    [StationID |-> S_BL12, StationName |-> S_TaipeiMain,
     DestinationStationName |-> dest, LineNO |-> undefined, LineNo |-> undefined,
     Timetables |-> [i \in DOMAIN times |-> [ArrivalTime |-> times[i]]]]

Live300 == LiveItem(S_Nangang, JsNum(300), S_BL)

LiveRows_p2 ==
    {Live300,
     LiveItem(S_Nangang, JsStr(S_0128), undefined),
     LiveItem(S_Dingpu, JsStr(S_Arriving), undefined),
     LiveItem(S_Dingpu, JsNum(5), undefined)}

\* what the LiveBoard request is answered with: the empty list, the lists of
\* one arrival, and two arrivals for different destinations
LiveLists_p2 ==
    ListsUpTo(LiveRows_p2, 1) \cup {<<Live300, LiveItem(S_Dingpu, JsNum(5), undefined)>>}

TimetablePayloads ==
    {<<>>} \cup
    {<<TimetableStation(S_Nangang, times)>> :
        times \in {<<>>, <<S_2336>>, <<S_2338>>, <<S_2336, S_2338>>, <<S_0010>>,
                   <<S_2338, S_0010>>}}

\* the minute of the day at which calculateData runs: 22:36, 23:30 and 23:35
Nows == {1356, 1410, 1415}

\* what a GET can come back with: a body, an empty body, an error status
\* (0 is a transport error)
FeedOutcomes(payloads) ==
    {[kind |-> "data", status |-> 200, data |-> l] : l \in payloads}
    \cup {[kind |-> "empty", status |-> 200, data |-> <<>>]}
    \cup {[kind |-> "error", status |-> st, data |-> <<>>] : st \in {0, 401}}

\* no run of calculateData yet: the feeds and the minute of the last run, how
\* many runs in a row had them (2 stands for two or more), and the list the
\* first of these runs published; rejected is the token that the latest data
\* request carried when it was answered with 401 (0: none, or it carried none);
\* noToken: the latest data request was sent while no token was cached
NoCycle_p2 ==
    [live |-> <<>>, timetable |-> <<>>, now |-> -1, runs |-> 0, first |-> <<>>,
     rejected |-> 0, noToken |-> FALSE]

Init_p2 ==
    /\ variant \in {"p2", "p6"}
    /\ hasCreds \in BOOLEAN
    /\ cache = EmptyCache_p2
    /\ clock = 0
    /\ pc = "idle"
    /\ response = NoResponse
    /\ auth = NoAuth
    /\ liveBoardData = <<>>
    /\ staticTimetable = <<>>
    /\ fetches = {}
    /\ origin = NoOrigin
    /\ lastCycle = NoCycle_p2
    /\ Idle_norm

\* fetchTimetable, lines 43-57.  Each feed stores a payload once in a run: a
\* later payload would replace it, and calculateData reads the current ones.
\* The catch block of line 56 only logs.
FetchTimetable(tokenOk, outcome) ==
    /\ variant \in {"p2", "p6"}
    /\ auth' = IF auth.token = 0 THEN getAuthToken(auth, tokenOk) ELSE auth
    /\ lastCycle' = [lastCycle EXCEPT
                       !.rejected = IF outcome.status = 401 THEN auth'.token ELSE 0,
                       !.noToken = auth'.token = 0]
    /\ IF outcome.kind = "data"
       THEN /\ "timetable" \notin fetches
            /\ staticTimetable' = outcome.data
            /\ cache' = [cache EXCEPT !.timetableCount = Len(outcome.data)]
            /\ fetches' = fetches \cup {"timetable"}
       ELSE UNCHANGED <<staticTimetable, cache, fetches>>
    /\ response' = NoResponse
    /\ UNCHANGED <<hasCreds, clock, pc, liveBoardData, frame_p2>>

\* fetchLiveBoard, lines 59-74
FetchLiveBoard(tokenOk, retryOk, outcome) ==
    LET held == IF auth.token = 0 THEN getAuthToken(auth, tokenOk) ELSE auth
    IN /\ variant \in {"p2", "p6"}
       /\ auth' = IF outcome.status = 401
                  THEN getAuthToken([held EXCEPT !.token = 0], retryOk)
                  ELSE held
       /\ IF outcome.kind = "data"
          THEN /\ "live" \notin fetches
               /\ liveBoardData' = outcome.data
               /\ cache' = [cache EXCEPT !.liveBoardCount = Len(outcome.data)]
               /\ fetches' = fetches \cup {"live"}
          ELSE UNCHANGED <<liveBoardData, cache, fetches>>
       /\ lastCycle' = [lastCycle EXCEPT
                          !.rejected = IF outcome.status = 401 THEN held.token ELSE 0,
                          !.noToken = held.token = 0]
       /\ response' = NoResponse
       /\ UNCHANGED <<hasCreds, clock, pc, staticTimetable, frame_p2>>

\* calculateData, lines 76-149, run when the minute of the day is currentMin;
\* lastUpdated holds that minute
CalculateData(currentMin) ==
    /\ variant \in {"p2", "p6"}
    /\ cache' = [cache EXCEPT
                    !.data = calculateData(liveBoardData, staticTimetable, currentMin),
                    !.lastUpdated = currentMin,
                    !.success = TRUE,
                    !.message = "ok"]
    /\ lastCycle' =
         LET again == /\ lastCycle.runs > 0
                      /\ lastCycle.live = liveBoardData
                      /\ lastCycle.timetable = staticTimetable
                      /\ lastCycle.now = currentMin
         IN [live |-> liveBoardData, timetable |-> staticTimetable, now |-> currentMin,
             runs |-> IF again THEN 2 ELSE 1,
             first |-> IF again THEN lastCycle.first ELSE cache'.data,
             rejected |-> lastCycle.rejected,
             noToken |-> lastCycle.noToken]
    /\ response' = NoResponse
    /\ UNCHANGED <<hasCreds, clock, pc, auth, liveBoardData, staticTimetable, fetches,
                   frame_p2>>

\* GET /api/trains: line 160 of part_002, lines 174-180 of part_006
GetTrains_p2 ==
    /\ variant \in {"p2", "p6"}
    /\ response' = [route |-> "trains", status |-> 200,
                    success |-> IF variant = "p2" THEN TRUE ELSE cache.success,
                    updatedAt |-> cache.lastUpdated, data |-> cache.data]
    /\ UNCHANGED <<hasCreds, cache, clock, pc, auth, liveBoardData, staticTimetable,
                   fetches, lastCycle, frame_p2>>

Next_p2 ==
    \/ \E tokenOk \in TokenAnswers(auth.token = 0),
          outcome \in FeedOutcomes(TimetablePayloads) :
          FetchTimetable(tokenOk, outcome)
    \/ \E tokenOk \in TokenAnswers(auth.token = 0),
          outcome \in FeedOutcomes(LiveLists_p2) :
          \E retryOk \in TokenAnswers(outcome.status = 401) :
             FetchLiveBoard(tokenOk, retryOk, outcome)
    \/ \E currentMin \in Nows : CalculateData(currentMin)
    \/ GetTrains_p2

SpecTdx == Init_p2 /\ [][Next_p2]_vars

\* C24: when the latest data request of a feed (live board or timetable) was
\* answered with 401, the token it carried is no longer the cached one: the
\* next request carries a newer token or finds none cached
C24_RejectedTokenNotKept ==
    (variant \in {"p2", "p6"} /\ lastCycle.rejected # 0) =>
        auth.token # lastCycle.rejected

\* the entries of the published list
DataEntries == {cache.data[i] : i \in DOMAIN cache.data}

\* C4: the published list holds no schedule entry that has a live entry for
\* the same station and destination less than the dedup tolerance away; a live
\* arrival at 300 s and a scheduled one 360 s ahead give one entry, the live one.
C4_NoScheduleNearLive ==
    variant \in {"p2", "p6"} =>
        /\ \A d \in DataEntries : \A e \in DataEntries :
              (d.type = "live" /\ e.type = "schedule"
                  /\ d.stationID = e.stationID /\ d.destination = e.destination)
              => Abs(d.time - e.time) >= DedupTolerance
        /\ (/\ lastCycle.live = <<Live300>>
            /\ lastCycle.timetable = <<TimetableStation(S_Nangang, <<S_2336>>)>>
            /\ lastCycle.now = 1410)
           => (Len(cache.data) = 1 /\ cache.data[1].type = "live" /\ cache.data[1].time = 5)

\* calculateData has run on the live arrival at 300 s and the 23:36 timetable
\* entry, at 23:30, and published one entry
C4_Witness ==
    /\ variant \in {"p2", "p6"}
    /\ lastCycle.live = <<Live300>>
    /\ lastCycle.timetable = <<TimetableStation(S_Nangang, <<S_2336>>)>>
    /\ lastCycle.now = 1410
    /\ Len(cache.data) = 1

\* the timetable entries calculateData last ran on: station record, clock time
LastTimetableEntries ==
    UNION {{[st |-> lastCycle.timetable[s],
             at |-> lastCycle.timetable[s].Timetables[k].ArrivalTime] :
               k \in DOMAIN lastCycle.timetable[s].Timetables} :
           s \in DOMAIN lastCycle.timetable}

\* a live entry for the station and destination of st lies within the tolerance of eta
LiveNear(st, eta) ==
    \E d \in DataEntries :
        /\ d.type = "live"
        /\ d.stationID = st.StationID
        /\ d.destination = st.DestinationStationName
        /\ Abs(d.time - eta) < DedupTolerance

ScheduleEmitted(st, eta) ==
    \E e \in DataEntries :
        /\ e.type = "schedule"
        /\ e.stationID = st.StationID
        /\ e.destination = st.DestinationStationName
        /\ e.time = eta

\* C5: a timetable entry inside the lookahead window is published unless a
\* live entry for the same station and destination lies within the tolerance.
C5_SuppressedOnlyByLive ==
    variant \in {"p2", "p6"} =>
        \A t \in LastTimetableEntries :
            LET trainMin == TrainMin(t.at)
                diff == trainMin.num - lastCycle.now
            IN (/\ trainMin.kind = "number"
                /\ trainMin.num > lastCycle.now
                /\ trainMin.num <= lastCycle.now + Lookahead
                /\ ~LiveNear(t.st, diff))
               => ScheduleEmitted(t.st, diff)

\* C6: a timetable entry whose clock time is past midnight, at most the
\* lookahead after now, is published with the minutes until it as its time
\* (00:10 at 23:30 gives 40); no schedule entry has a negative time.
C6_MidnightTolerated ==
    variant \in {"p2", "p6"} =>
        /\ \A e \in DataEntries : e.type = "schedule" => e.time >= 0
        /\ \A t \in LastTimetableEntries :
              LET trainMin == TrainMin(t.at)
                  until == (trainMin.num - lastCycle.now) % 1440
              IN (/\ trainMin.kind = "number"
                  /\ trainMin.num < lastCycle.now
                  /\ until > 0
                  /\ until <= Lookahead
                  /\ ~LiveNear(t.st, until))
                 => ScheduleEmitted(t.st, until)

\* the published entry d is for the station and destination of st and lies
\* within the tolerance of eta
EntryNear(d, st, eta) ==
    /\ d.stationID = st.StationID
    /\ d.destination = st.DestinationStationName
    /\ Abs(d.time - eta) < DedupTolerance

Request(feed, awaits, issued, token) ==
    [feed |-> feed, awaits |-> awaits, issued |-> issued, token |-> token]

\* the fetch whose answer each feed's stored data is (0: none) and the
\* latest-started fetch whose answer was ever stored; the same for the fetch
\* whose token request gave the cached token
NoOrigin_p2 ==
    [live |-> 0, timetable |-> 0, newestLive |-> 0, newestTimetable |-> 0,
     token |-> 0, newestToken |-> 0]

Init_overlap ==
    /\ variant = "p2"
    /\ hasCreds \in BOOLEAN
    /\ cache = EmptyCache_p2
    /\ clock = 0
    /\ pc = "idle"
    /\ response = NoResponse
    /\ auth = NoAuth
    /\ liveBoardData = <<>>
    /\ staticTimetable = <<>>
    /\ fetches = {}
    /\ origin = NoOrigin_p2
    /\ lastCycle = NoCycle_p2
    /\ Idle_norm

\* a tick of a feed's timer: fetchTimetable / fetchLiveBoard up to its first
\* await, lines 44-47 and 60-62.  Without credentials getAuthToken returns
\* at once (line 27) and the data request goes out; clock counts the ticks.
FetchSend(feed) ==
    /\ variant = "p2"
    /\ clock < MaxCycles
    /\ clock' = clock + 1
    /\ fetches' = fetches \cup
                     {IF auth.token = 0 /\ hasCreds
                      THEN Request(feed, "token", clock + 1, 0)
                      ELSE Request(feed, "data", clock + 1, auth.token)}
    /\ response' = NoResponse
    /\ UNCHANGED <<hasCreds, cache, pc, auth, liveBoardData, staticTimetable, lastCycle,
                   origin, variant, vars_norm>>

\* the token request of a fetch is answered, lines 35-40: the token of the
\* answer is stored; after the one of lines 44 / 60 the data request goes out
\* with the token cached by then
TokenAnswered(req, ok) ==
    /\ variant = "p2"
    /\ req \in fetches
    /\ req.awaits \in {"token", "refresh"}
    /\ auth' = getAuthToken(auth, ok)
    /\ origin' = IF AuthGranted(auth, ok)
                 THEN [origin EXCEPT
                          !.token = req.issued,
                          !.newestToken = IF req.issued > @ THEN req.issued ELSE @]
                 ELSE origin
    /\ fetches' = (fetches \ {req}) \cup
                     (IF req.awaits = "token"
                      THEN {Request(req.feed, "data", req.issued, auth'.token)}
                      ELSE {})
    /\ response' = NoResponse
    /\ UNCHANGED <<hasCreds, cache, clock, pc, liveBoardData, staticTimetable, lastCycle,
                   variant, vars_norm>>

\* fetchTimetable from the answer of its data request on, lines 51-56
FetchTimetableResume(req, outcome) ==
    /\ variant = "p2"
    /\ req \in fetches
    /\ req.feed = "timetable"
    /\ req.awaits = "data"
    /\ fetches' = fetches \ {req}
    /\ IF outcome.kind = "data"
       THEN /\ staticTimetable' = outcome.data
            /\ cache' = [cache EXCEPT !.timetableCount = Len(outcome.data)]
            /\ origin' = [origin EXCEPT
                             !.timetable = req.issued,
                             !.newestTimetable = IF req.issued > @ THEN req.issued ELSE @]
       ELSE UNCHANGED <<staticTimetable, cache, origin>>
    /\ lastCycle' = [lastCycle EXCEPT
                       !.rejected = IF outcome.status = 401 THEN req.token ELSE 0,
                       !.noToken = req.token = 0]
    /\ response' = NoResponse
    /\ UNCHANGED <<hasCreds, clock, pc, auth, liveBoardData, variant, vars_norm>>

\* fetchLiveBoard from the answer of its data request on, lines 66-73: after
\* a 401 the token is dropped and, with credentials, a token request goes out
FetchLiveBoardResume(req, outcome) ==
    /\ variant = "p2"
    /\ req \in fetches
    /\ req.feed = "live"
    /\ req.awaits = "data"
    /\ fetches' = (fetches \ {req}) \cup
                     (IF outcome.status = 401 /\ hasCreds
                      THEN {Request("live", "refresh", req.issued, 0)}
                      ELSE {})
    /\ auth' = IF outcome.status = 401 THEN [auth EXCEPT !.token = 0] ELSE auth
    /\ IF outcome.kind = "data"
       THEN /\ liveBoardData' = outcome.data
            /\ cache' = [cache EXCEPT !.liveBoardCount = Len(outcome.data)]
            /\ origin' = [origin EXCEPT
                             !.live = req.issued,
                             !.newestLive = IF req.issued > @ THEN req.issued ELSE @]
       ELSE /\ UNCHANGED <<liveBoardData, cache>>
            /\ origin' = IF outcome.status = 401
                         THEN [origin EXCEPT !.token = 0, !.newestToken = 0]
                         ELSE origin
    /\ lastCycle' = [lastCycle EXCEPT
                       !.rejected = IF outcome.status = 401 THEN req.token ELSE 0,
                       !.noToken = req.token = 0]
    /\ response' = NoResponse
    /\ UNCHANGED <<hasCreds, clock, pc, staticTimetable, variant, vars_norm>>

Next_overlap ==
    \/ \E feed \in {"live", "timetable"} : FetchSend(feed)
    \/ \E req \in fetches, ok \in BOOLEAN : TokenAnswered(req, ok)
    \/ \E req \in fetches, outcome \in FeedOutcomes(TimetablePayloads) :
          FetchTimetableResume(req, outcome)
    \/ \E req \in fetches, outcome \in FeedOutcomes(LiveLists_p2) :
          FetchLiveBoardResume(req, outcome)
    \/ \E currentMin \in Nows : CalculateData(currentMin)
    \/ GetTrains_p2

SpecOverlap == Init_overlap /\ [][Next_overlap]_vars

\* the token requests that have not been answered yet
PendingTokenRequests == {req \in fetches : req.awaits \in {"token", "refresh"}}

\* C34: at most one token request of part_002 is pending at any time, and the
\* cached token is the answer of the latest-started fetch among those whose
\* token was stored
C34_OneTokenRequestAtATime ==
    variant = "p2" =>
        /\ Cardinality(PendingTokenRequests) <= 1
        /\ origin.token = origin.newestToken

\* C33: no data request of part_002 is sent while no token is cached: when
\* getAuthToken fails, the fetch returns without its request
C33_NoRequestWithoutToken ==
    variant \in {"p2", "p6"} => ~lastCycle.noToken

\* C27: the stored data of each feed is the answer of the latest-issued
\* request among those whose answer was stored: it never goes back to the
\* answer of a request issued earlier
C27_StoredDataNeverGoesBack ==
    variant = "p2" =>
        /\ origin.live = origin.newestLive
        /\ origin.timetable = origin.newestTimetable

(***************************************************************************)
(* calculateData of part_002 / part_006 and mergeTrackAndWeight of         *)
(* server.js, run again on the feed data they ran on                       *)
(***************************************************************************)
Init_idem == Init_p2 \/ Init_srv

Next_idem == Next_p2 \/ Next_srv

SpecIdem == Init_idem /\ [][Next_idem]_vars

C15_CodeOrder ==
    <<"0", "1", "2", "3", "4", "5", "6", "7", "8", "9",
      "A", "B", "C", "D", "E", "F", "G", "H", "I", "J", "K", "L", "M",
      "N", "O", "P", "Q", "R", "S", "T", "U", "V", "W", "X", "Y", "Z">>

C15_Rank(c) == CHOOSE k \in DOMAIN C15_CodeOrder : C15_CodeOrder[k] = c

\* a <= b in the order of strings
RECURSIVE C15_StationLeq(_, _)
C15_StationLeq(a, b) ==
    IF a = <<>> THEN TRUE
    ELSE IF b = <<>> THEN FALSE
    ELSE IF a[1] = b[1] THEN C15_StationLeq(Tail(a), Tail(b))
    ELSE C15_Rank(a[1]) < C15_Rank(b[1])

\* C15: the published list is sorted by stationID and, within a station, by
\* ascending time.
C15_SortedByStationAndTime ==
    variant \in {"p2", "p6"} =>
        \A i, j \in DOMAIN cache.data :
            i < j =>
                /\ C15_StationLeq(cache.data[i].stationID, cache.data[j].stationID)
                /\ cache.data[i].stationID = cache.data[j].stationID
                   => cache.data[i].time <= cache.data[j].time

(***************************************************************************)
(* part_004 (second revision, lines 148-381): the station mapping, the     *)
(* crowdedness map and updateData                                          *)
(***************************************************************************)
\* a JavaScript object used as a map: a list of key / value pairs, one per key
MapHas(map, key) == \E i \in DOMAIN map : map[i].key = key

MapGet(map, key) ==
    IF MapHas(map, key)
    THEN map[CHOOSE i \in DOMAIN map : map[i].key = key].value
    ELSE undefined

MapSet(map, key, value) ==
    IF MapHas(map, key)
    THEN [i \in DOMAIN map |-> IF map[i].key = key
                               THEN [key |-> key, value |-> value]
                               ELSE map[i]]
    ELSE Append(map, [key |-> key, value |-> value])

RECURSIVE LeadingDigits(_)
LeadingDigits(s) ==
    IF s = <<>> \/ ~IsDigit(s[1]) THEN <<>>
    ELSE <<s[1]>> \o LeadingDigits(SubSeq(s, 2, Len(s)))

\* parseInt(s) of a string: the leading decimal digits, after white space
ParseInt(s) ==
    LET d == LeadingDigits(TrimStart(s))
    IN IF d = <<>> THEN NaN ELSE JsNum(DecimalValue(d))

\* parseInt(v) of a JSON value
ParseIntJs(v) ==
    IF v.kind = "number" THEN v
    ELSE IF v.kind = "string" THEN ParseInt(v.str)
    ELSE NaN

\* s.replace(c, ''): the first occurrence of the character is removed
ReplaceFirst(s, c) ==
    IF \A i \in DOMAIN s : s[i] # c THEN s
    ELSE LET i == CHOOSE k \in DOMAIN s : s[k] = c /\ \A j \in 1..(k - 1) : s[j] # c
         IN SubSeq(s, 1, i - 1) \o SubSeq(s, i + 1, Len(s))

\* lines 166-172
EmptyCache_p4 ==
    [success |-> FALSE, message |-> "starting", serverTime |-> 0, data |-> <<>>,
     nameToIdMap |-> <<>>]

\* lines 205-210: every station of the Station feed goes into the map
RECURSIVE AddStationNames(_, _)
AddStationNames(map, stations) ==
    IF stations = <<>> THEN map
    ELSE AddStationNames(MapSet(map, stations[1].StationName, stations[1].StationID),
                         SubSeq(stations, 2, Len(stations)))

\* the highest level with a car value that is no number counted as level 9
RECURSIVE MaxLevelFrom_nonNumericFull(_, _, _)
MaxLevelFrom_nonNumericFull(cars, i, maxLevel) ==
    IF i > 6 THEN maxLevel
    ELSE LET level == IF i <= Len(cars) /\ JsTruthy(cars[i])
                      THEN (LET n == ParseIntJs(cars[i])
                            IN IF n.kind = "NaN" THEN 9
                               ELSE IF n.num = 0 THEN 1 ELSE n.num)
                      ELSE maxLevel
         IN MaxLevelFrom_nonNumericFull(cars, i + 1,
                                        IF level > maxLevel THEN level ELSE maxLevel)

\* lines 293-297: the highest level of Car1 .. Car6, at least 1
RECURSIVE MaxLevelFrom(_, _, _)
MaxLevelFrom(cars, i, maxLevel) ==
    IF i > 6 THEN maxLevel
    ELSE LET level == IF i <= Len(cars) /\ JsTruthy(cars[i])
                      THEN (LET n == ParseIntJs(cars[i])
                            IN IF n.kind = "NaN" \/ n.num = 0 THEN 1 ELSE n.num)
                      ELSE maxLevel
         IN MaxLevelFrom(cars, i + 1, IF level > maxLevel THEN level ELSE maxLevel)

\* the label table with level 3 given the label of level 2
LevelStr_noHigh(maxLevel) ==
    IF maxLevel >= 4 THEN "FULL"
    ELSE IF maxLevel >= 2 THEN "MEDIUM"
    ELSE "LOW"

\* lines 300-303
LevelStr(maxLevel) ==
    IF maxLevel >= 4 THEN "FULL"
    ELSE IF maxLevel = 3 THEN "HIGH"
    ELSE IF maxLevel = 2 THEN "MEDIUM"
    ELSE "LOW"

\* lines 289-308: process(list)
RECURSIVE ProcessCrowd(_, _)
ProcessCrowd(crowdednessMap, list) ==
    IF list = <<>> THEN crowdednessMap
    ELSE LET train == list[1]
             next == IF ~Falsy(train.StationID)
                     THEN MapSet(crowdednessMap, train.StationID,
                                 LevelStr(MaxLevelFrom(train.Cars, 1, 1)))
                     ELSE crowdednessMap
         IN ProcessCrowd(next, SubSeq(list, 2, Len(list)))

\* part_005 lines 218-224, 236: decodeAny gives the string of a string or of an
\* integer, and Int(_:) of it is an integer only when it is all digits
SwiftInt(v) ==
    IF v.kind = "number" THEN JsNum(v.num)
    ELSE IF v.kind = "string" /\ v.str # <<>> /\ \A i \in DOMAIN v.str : IsDigit(v.str[i])
    THEN JsNum(DecimalValue(v.str))
    ELSE NaN

\* part_005 lines 234-237: the levels that decode to integers
levels(cars) ==
    {SwiftInt(cars[i]).num : i \in {k \in DOMAIN cars : k <= 6 /\ SwiftInt(cars[k]).kind = "number"}}

\* part_005 lines 239-248: calculatedLevel of a record without CongestionLevel
calculatedLevel(cars) ==
    IF levels(cars) = {} THEN "UNKNOWN"
    ELSE LET maxVal == CHOOSE m \in levels(cars) : \A n \in levels(cars) : n <= m
         IN IF maxVal >= 4 THEN "FULL"
            ELSE IF maxVal = 3 THEN "HIGH"
            ELSE IF maxVal = 2 THEN "MEDIUM"
            ELSE "LOW"

\* lines 254-313
fetchCrowdedness(oHigh, oWenhu) ==
    ProcessCrowd(ProcessCrowd(<<>>, fetchApi(oHigh)), fetchApi(oWenhu))

Far == 9999

\* the countdown conversion without its sentinel branch
CountDownSeconds_noSentinel(countDown) ==
    IF JsTruthy(countDown) /\ countDown.kind = "string" /\ Includes(countDown.str, <<":">>)
    THEN LET parts == Split(countDown.str, ":")
             mm == ParseInt(parts[1])
             ss == ParseInt(parts[2])
         IN IF mm.kind = "NaN" \/ ss.kind = "NaN" THEN NaN
            ELSE JsNum(mm.num * 60 + ss.num)
    ELSE JsNum(Far)

\* lines 325-333: the seconds of a CountDown
CountDownSeconds(countDown) ==
    IF countDown = JsStr(S_Arriving) THEN JsNum(0)
    ELSE IF JsTruthy(countDown) /\ countDown.kind = "string" /\ Includes(countDown.str, <<":">>)
    THEN LET parts == Split(countDown.str, ":")
             mm == ParseInt(parts[1])
             ss == ParseInt(parts[2])
         IN IF mm.kind = "NaN" \/ ss.kind = "NaN" THEN NaN
            ELSE JsNum(mm.num * 60 + ss.num)
    ELSE JsNum(Far)

\* lines 321-355: the entry of one TrackInfo item
TrackEntry_p4(item, nameToIdMap, crowdMap) ==
    LET stationName == ReplaceFirst(item.StationName, "zhan")
        stationID == OrElse(MapGet(nameToIdMap, stationName), item.StationName)
        seconds == CountDownSeconds(item.CountDown)
    IN [stationID |-> stationID,
        stationName |-> stationName,
        destination |-> ReplaceFirst(item.DestinationName, "zhan"),
        lineNo |-> IF ~Falsy(stationID) /\ LeadingUpper(stationID) # <<>>
                   THEN LeadingUpper(stationID) ELSE S_Unknown,
        time |-> seconds,
        crowdLevel |-> IF seconds.kind = "number" /\ seconds.num < 60
                          /\ MapHas(crowdMap, stationID)
                       THEN MapGet(crowdMap, stationID) ELSE "LOW",
        type |-> "live"]

\* line 328: a CountDown that is a non-zero number has no includes method, the
\* callback throws and updateData publishes nothing
UpdateDataThrows(trackInfo) ==
    \E i \in DOMAIN trackInfo :
        trackInfo[i].CountDown.kind = "number" /\ trackInfo[i].CountDown.num # 0

S_R05 == <<"R", "0", "5">>
S_2 == <<"2">>
S_3 == <<"3">>
S_1 == <<"1">>
S_4 == <<"4">>

TrackRow_p4(stationName, dest, countDown) ==
    [TrainNumber |-> S_132, StationName |-> stationName, DestinationName |-> dest,
     CountDown |-> countDown]

CrowdRow(stationID, cars) ==
    [TrainNumber |-> S_132, StationID |-> stationID, Cars |-> cars]

\* train 132 at Taipei Main Station, 01:28 away
Track132 == TrackRow_p4(S_TaipeiMain, S_Dingpu, JsStr(S_0128))
TrackArriving == TrackRow_p4(S_DaanZhan, S_Nangang, JsStr(S_Arriving))

TrackRows_p4 ==
    {Track132,
     TrackArriving,
     TrackRow_p4(S_DaanZhan, S_Nangang, JsNum(88)),
     TrackRow_p4(S_DaanZhan, S_Nangang, JsStr(S_2))}

\* train 132 with car levels 2, 2, 3, 1
Crowd132 == CrowdRow(S_BL12, <<JsStr(S_2), JsStr(S_2), JsStr(S_3), JsStr(S_1)>>)

\* a train at Da'an with car levels 1, 3, 2
CrowdDaan == CrowdRow(S_R05, <<JsNum(1), JsStr(S_3), JsNum(2)>>)

\* a train at Da'an whose first car level is no number
CrowdDashes == CrowdRow(S_R05, <<JsStr(<<"-">>), JsStr(S_2)>>)

\* what the two crowd requests can come back with: a list, or an error
HighCapOutcomes ==
    {[error |-> FALSE, data |-> l] :
        l \in {<<Crowd132>>, <<Crowd132, CrowdRow(S_R05, <<JsStr(S_4), JsNum(1)>>)>>,
               <<CrowdDaan>>, <<CrowdDashes>>}}
    \cup {[error |-> TRUE, data |-> <<>>]}

WenhuOutcomes ==
    {[error |-> FALSE, data |-> <<CrowdRow(undefined, <<JsStr(S_2)>>)>>],
     [error |-> TRUE, data |-> <<>>]}

StationRow(name, id) == [StationName |-> name, StationID |-> id]

StationPayloads ==
    {<<>>,
     <<StationRow(S_TaipeiMain, S_BL12)>>,
     <<StationRow(S_TaipeiMain, S_BL12), StationRow(S_Daan, S_R05)>>}

\* what fetchTrackInfo can come back with: the parsed array, JSON that is not
\* an array, or the empty list of its error paths (lines 232-250)
TrackOutcomes_p4 ==
    {[kind |-> "array", data |-> l] : l \in ListsUpTo(TrackRows_p4, MaxRows)}
    \cup {[kind |-> "other", data |-> <<>>], [kind |-> "error", data |-> <<>>]}

NoCycle_p4 == [trackInfo |-> <<>>, highCap |-> <<>>, wenhu |-> <<>>]

Init_p4 ==
    /\ variant = "p4"
    /\ hasCreds \in BOOLEAN
    /\ cache = EmptyCache_p4
    /\ clock = 0
    /\ pc = "mapping"
    /\ response = NoResponse
    /\ Idle_tdx
    /\ origin = NoOrigin
    /\ lastCycle = NoCycle_p4
    /\ Idle_norm

\* fetchStationMapping, lines 187-212; updateData starts when it has returned
\* (lines 367-370)
FetchStationMapping(outcome) ==
    /\ variant = "p4"
    /\ pc = "mapping"
    /\ cache' = IF hasCreds /\ outcome.kind = "data"
                THEN [cache EXCEPT !.nameToIdMap = AddStationNames(@, outcome.data)]
                ELSE cache
    /\ pc' = "idle"
    /\ UNCHANGED <<hasCreds, clock, response, lastCycle, frame_p4>>

\* updateData, lines 315-365
UpdateData(oTrack, oHigh, oWenhu) ==
    LET trackInfo == oTrack.data
        crowdMap == fetchCrowdedness(oHigh, oWenhu)
    IN /\ variant = "p4"
       /\ pc = "idle"
       /\ IF oTrack.kind = "other" \/ UpdateDataThrows(trackInfo)
          THEN UNCHANGED <<cache, clock, lastCycle>>
          ELSE /\ clock < MaxCycles
               /\ cache' = [cache EXCEPT
                               !.data = [i \in DOMAIN trackInfo |->
                                            TrackEntry_p4(trackInfo[i], cache.nameToIdMap,
                                                          crowdMap)],
                               !.serverTime = clock + 1,
                               !.success = TRUE,
                               !.message = "updated"]
               /\ clock' = clock + 1
               /\ lastCycle' = [trackInfo |-> trackInfo, highCap |-> fetchApi(oHigh),
                                wenhu |-> fetchApi(oWenhu)]
       /\ response' = NoResponse
       /\ UNCHANGED <<hasCreds, pc, frame_p4>>

\* GET /api/trains, lines 373-379
GetTrains_p4 ==
    /\ variant = "p4"
    /\ response' = [route |-> "trains", status |-> 200, success |-> cache.success,
                    data |-> cache.data]
    /\ UNCHANGED <<hasCreds, cache, clock, pc, lastCycle, frame_p4>>

Next_p4 ==
    \/ \E outcome \in FeedOutcomes(StationPayloads) : FetchStationMapping(outcome)
    \/ \E oTrack \in TrackOutcomes_p4, oHigh \in HighCapOutcomes,
          oWenhu \in WenhuOutcomes : UpdateData(oTrack, oHigh, oWenhu)
    \/ GetTrains_p4

SpecP4 == Init_p4 /\ [][Next_p4]_vars

\* C8: train 132 at Taipei Main Station with countdown 01:28 and its crowd
\* record with car levels 2, 2, 3, 1 give one arrival: stationID the code of
\* Taipei Main Station, the destination of the track record, 88 seconds, HIGH,
\* live.
C8_EndToEnd ==
    (/\ variant = "p4"
     /\ lastCycle.trackInfo = <<Track132>>
     /\ lastCycle.highCap = <<Crowd132>>
     /\ MapHas(cache.nameToIdMap, S_TaipeiMain))
    => /\ Len(cache.data) = 1
       /\ cache.data[1].stationID = MapGet(cache.nameToIdMap, S_TaipeiMain)
       /\ cache.data[1].destination = Track132.DestinationName
       /\ cache.data[1].time = JsNum(88)
       /\ cache.data[1].crowdLevel = "HIGH"
       /\ cache.data[1].type = "live"

\* C20: every published arrival has as stationID a station code of the
\* name-to-id table; a track record whose station name is not in the table is
\* dropped, not published under its raw name.
C20_StationIdIsCanonical ==
    variant = "p4" =>
        \A i \in DOMAIN cache.data :
            \E k \in DOMAIN cache.nameToIdMap :
                cache.nameToIdMap[k].value = cache.data[i].stationID

\* the car levels of a crowd record are positive integers, as numbers or as
\* digit strings, and there is at least one
C12_PositiveLevels(cars) ==
    /\ cars # <<>>
    /\ Len(cars) <= 6
    /\ \A i \in DOMAIN cars :
          \/ cars[i].kind = "number" /\ cars[i].num >= 1
          \/ /\ cars[i].kind = "string"
             /\ cars[i].str # <<>>
             /\ \A k \in DOMAIN cars[i].str : IsDigit(cars[i].str[k])
             /\ DecimalValue(cars[i].str) >= 1

C12_CarLevel(c) == IF c.kind = "number" THEN c.num ELSE DecimalValue(c.str)

\* the label of the highest car level: 1 LOW, 2 MEDIUM, 3 HIGH, 4 or more FULL
C12_Label(cars) ==
    LET m == CHOOSE x \in {C12_CarLevel(cars[i]) : i \in DOMAIN cars} :
                 \A i \in DOMAIN cars : C12_CarLevel(cars[i]) <= x
    IN CASE m = 1 -> "LOW" [] m = 2 -> "MEDIUM" [] m = 3 -> "HIGH" [] m >= 4 -> "FULL"

\* the crowd records a cycle read, high-capacity lines first
C12_CrowdRows == lastCycle.highCap \o lastCycle.wenhu

C22_Contribution(c) ==
    IF c.kind = "number" THEN c.num
    ELSE IF c.str # <<>> /\ \A k \in DOMAIN c.str : IsDigit(c.str[k]) THEN DecimalValue(c.str)
    ELSE 1

C22_Expected(cars) ==
    LET all == {1} \cup {C22_Contribution(cars[i]) : i \in DOMAIN cars}
    IN CHOOSE m \in all : \A n \in all : n <= m

\* C22: every crowd record with a StationID gets a crowd label, and a car
\* value that is no number counts as level 1 in the maximum; an arrival due
\* within a minute at the record's station is published with that label.
C22_NonNumericCountsAsOne ==
    variant = "p4" =>
        /\ \A k \in DOMAIN C12_CrowdRows :
              ~Falsy(C12_CrowdRows[k].StationID) =>
                  /\ MapHas(ProcessCrowd(<<>>, C12_CrowdRows), C12_CrowdRows[k].StationID)
                  /\ MaxLevelFrom(C12_CrowdRows[k].Cars, 1, 1)
                        = C22_Expected(C12_CrowdRows[k].Cars)
        /\ \A i \in DOMAIN cache.data :
              \A k \in DOMAIN C12_CrowdRows :
                  (/\ cache.data[i].time.kind = "number"
                   /\ cache.data[i].time.num < 60
                   /\ C12_CrowdRows[k].StationID = cache.data[i].stationID
                   /\ \A j \in DOMAIN C12_CrowdRows :
                         C12_CrowdRows[j].StationID = cache.data[i].stationID => j = k)
                  => cache.data[i].crowdLevel
                       = LevelStr(C22_Expected(C12_CrowdRows[k].Cars))

\* the train arriving at Da'an is published with MEDIUM from the crowd record
\* of Da'an whose car values are '-' and '2'
C22_Witness ==
    /\ variant = "p4"
    /\ lastCycle.trackInfo = <<TrackArriving>>
    /\ lastCycle.highCap = <<CrowdDashes>>
    /\ Len(cache.data) = 1
    /\ cache.data[1].stationID = S_R05
    /\ cache.data[1].crowdLevel = "MEDIUM"

Init_eta == Init_p4 \/ Init_p2

Next_eta == Next_p4 \/ Next_p2

SpecEta == Init_eta /\ [][Next_eta]_vars

\* C7: the time of every published arrival is a non-negative integer, and an
\* arrival whose countdown is the arriving sentinel has time 0.
C7_EtaNonNegativeInteger ==
    /\ variant = "p4" =>
          \A i \in DOMAIN cache.data :
              /\ cache.data[i].time.kind = "number"
              /\ cache.data[i].time.num \in Nat
              /\ lastCycle.trackInfo[i].CountDown = JsStr(S_Arriving)
                 => cache.data[i].time.num = 0
    /\ variant \in {"p2", "p6"} =>
          \A i \in DOMAIN cache.data :
              /\ cache.data[i].time \in Nat
              /\ (i <= Len(lastCycle.live)
                    /\ lastCycle.live[i].EstimateTime = JsStr(S_Arriving))
                 => cache.data[i].time = 0

\* updateData has published the arrival of a train whose countdown is the
\* arriving sentinel
C7_Witness ==
    /\ variant = "p4"
    /\ lastCycle.trackInfo = <<TrackArriving>>
    /\ Len(cache.data) = 1
    /\ cache.data[1].time = JsNum(0)


(***************************************************************************)
(* server.js, 1st revision (lines 1-262): updateData and the station query *)
(***************************************************************************)
\* Da'an Park (U+5927 U+5B89 U+68EE U+6797 U+516C U+5712)
S_DaanPark == <<"da", "an", "sen", "lin", "gong", "yuan">>

\* lines 22-28 (lastUpdate 0 is null)
EmptyCache_v1 ==
    [success |-> FALSE, lastUpdate |-> 0, trackInfo |-> <<>>, carWeight |-> <<>>,
     data |-> <<>>]

\* lines 133-154: the code of mergeTrackAndWeight of the 2nd revision
buildMergedTrainList(trackInfo, carWeight) == mergeTrackAndWeight(trackInfo, carWeight)

\* lines 157-159: the one entry of the table (Zhongxiao Xinsheng with the
\* station suffix)
stationIdToName_v1(stationId) ==
    IF stationId = S_BL12 THEN S_ZhongxiaoXinsheng \o <<"zhan">> ELSE undefined

\* lines 233-236: the trains whose normalised station name contains the key
TrainsAtStation(data, key) ==
    SelectSeq(data, LAMBDA t : LET name == normalizeStationName(t.stationName)
                               IN name # <<>> /\ Includes(name, key))

\* what fetchTrackInfo resolves to: the empty list, one train at one of four
\* stations, or a train at Da'an and one at Da'an Park
TrackResults_v1 ==
    {<<>>}
    \cup {<<TrackRow(S_132, name, S_Nangang, S_0128)>> :
             name \in {S_ZhongxiaoXinsheng \o <<"zhan">>, S_DaanZhan, S_Daan, S_DaanPark}}
    \cup {<<TrackRow(S_132, S_DaanZhan, S_Nangang, S_0128),
            TrackRow(S_7, S_DaanPark \o <<"zhan">>, S_Dingpu, S_0310)>>}

\* what the station route is asked for: the code of the table, and station
\* names (a string that is not in the table is used as the name, line 230)
StationQueries_v1 == {S_BL12, S_Daan, S_DaanPark}

Init_v1 ==
    /\ variant = "srv1"
    /\ hasCreds = TRUE
    /\ cache = EmptyCache_v1
    /\ clock = 0
    /\ pc = "idle"
    /\ response = NoResponse
    /\ origin = NoOrigin
    /\ lastCycle = NoCycle
    /\ Idle_tdx
    /\ Idle_norm

\* updateData when both fetches resolved, lines 168-179
UpdateData_v1(trackInfo, carWeight) ==
    /\ variant = "srv1"
    /\ clock < MaxCycles
    /\ clock' = clock + 1
    /\ cache' = [success |-> TRUE, lastUpdate |-> clock', trackInfo |-> trackInfo,
                 carWeight |-> carWeight,
                 data |-> buildMergedTrainList(trackInfo, carWeight)]
    /\ response' = NoResponse
    /\ UNCHANGED <<hasCreds, pc, frame_p1, lastCycle>>

\* updateData when a fetch rejected, lines 180-183
UpdateDataRejected_v1 ==
    /\ variant = "srv1"
    /\ cache' = [cache EXCEPT !.success = FALSE]
    /\ response' = NoResponse
    /\ UNCHANGED <<hasCreds, clock, pc, frame_p1, lastCycle>>

\* GET /api/station/:stationId, lines 228-247
GetStation_v1(stationId) ==
    LET stationName == OrElse(stationIdToName_v1(stationId), stationId)
        trains == TrainsAtStation(cache.data, normalizeStationName(stationName))
    IN /\ variant = "srv1"
       /\ response' = [route |-> "station", status |-> 200, success |-> TRUE,
                       stationId |-> stationId, stationName |-> stationName,
                       lastUpdate |-> cache.lastUpdate,
                       count |-> Len(trains), trains |-> trains]
       /\ UNCHANGED <<hasCreds, cache, clock, pc, frame_p1, lastCycle>>

Next_v1 ==
    \/ \E trackInfo \in TrackResults_v1, carWeight \in WeightResults :
          UpdateData_v1(trackInfo, carWeight)
    \/ UpdateDataRejected_v1
    \/ \E stationId \in StationQueries_v1 : GetStation_v1(stationId)

SpecSrv1 == Init_v1 /\ [][Next_v1]_vars

\* C35: every train in the answer of the station query of the 1st revision
\* is at the queried station: its normalised station name is the normalised
\* name of the queried station, not a longer name that contains it
C35_OnlyTrainsOfQueriedStation ==
    (variant = "srv1" /\ response.route = "station") =>
        \A i \in DOMAIN response.trains :
            normalizeStationName(response.trains[i].stationName)
                = normalizeStationName(response.stationName)


(***************************************************************************)
(* part_000: refreshAll with callTrackInfo, callCarWeightEx and one        *)
(* GetTrainInfo request per car                                            *)
(***************************************************************************)
\* what a call of callTrackInfo / callCarWeightEx / callGetTrainInfo settles
\* to: a rejection with the message of its Error (a time-out of line 147,
\* 176, 205, an HTML page, no XML), or the node parseSoapResponse returns.
\* A node is an array, a string that looks like JSON (of an array, of one
\* object, or not parseable), an object that holds an array under a key, or
\* an object without one.
Rejected(message) == [kind |-> "rejected", message |-> message, items |-> <<>>]

SoapNode(kind, items) == [kind |-> kind, message |-> "", items |-> items]

\* the value of trackInfo / carWeight when the feed failed
NullSoap == SoapNode("null", <<>>)

\* callTrackInfo().catch((e) => ({ error: e.message })), lines 342-343; the
\* first is the call without its catch
CatchToError_none(settled) == settled

CatchToError(settled) ==
    IF settled.kind = "rejected"
    THEN [kind |-> "error", message |-> settled.message, items |-> <<>>]
    ELSE settled

\* trackRes && !trackRes.error
Succeeded(res) == res.kind # "error"

\* lines 213-243: extractTrackItems, applied to the soap node of a result
extractTrackItems(soap) ==
    CASE soap.kind = "array" -> soap.items
      [] soap.kind = "jsonArray" -> soap.items
      [] soap.kind = "jsonObject" -> <<soap.items[1]>>
      [] soap.kind = "badJson" -> <<>>
      [] soap.kind = "wrapped" -> soap.items
      [] OTHER -> <<>>

\* lines 246-272: extractCarWeightItems, the same code
extractCarWeightItems(soap) == extractTrackItems(soap)

\* lines 311-320 (lastUpdate 0 is null)
EmptyCache_p0 ==
    [success |-> FALSE, lastUpdate |-> 0, trains |-> <<>>, trackInfo |-> NullSoap,
     trackItems |-> <<>>, carWeight |-> NullSoap, carWeightItems |-> <<>>,
     message |-> "initializing"]

\* what a feed's call settles to, for the list of items the feed holds
FeedAnswers_p0(items) ==
    {Rejected("timeout"),
     SoapNode("array", <<>>), SoapNode("array", items), SoapNode("jsonArray", items),
     SoapNode("jsonObject", items), SoapNode("badJson", <<>>),
     SoapNode("wrapped", items), SoapNode("plain", <<>>)}

\* line 18: one car is configured
CAR_ID_LIST == <<S_132>>

\* no cycle yet: what the two feeds settled to in the last cycle, and
\* whether the cycle took its catch branch
NoCycle_p0 == [track |-> NullSoap, weight |-> NullSoap, caught |-> FALSE, ran |-> FALSE]

Init_p0 ==
    /\ variant = "p0"
    /\ hasCreds \in BOOLEAN
    /\ cache = EmptyCache_p0
    /\ clock = 0
    /\ pc = "idle"
    /\ response = NoResponse
    /\ origin = NoOrigin
    /\ lastCycle = NoCycle_p0
    /\ Idle_tdx
    /\ Idle_norm

\* refreshAll without credentials, lines 323-336
RefreshAllNoCreds ==
    /\ variant = "p0"
    /\ ~hasCreds
    /\ clock < MaxCycles
    /\ clock' = clock + 1
    /\ cache' = [EmptyCache_p0 EXCEPT !.lastUpdate = clock', !.message = "not set"]
    /\ UNCHANGED <<hasCreds, pc, response, lastCycle, frame_p1>>

\* refreshAll with credentials, lines 338-401: track and weight are what the
\* two feed calls settle to, carOk tells for each car whether its request
\* succeeded.  Promise.all rejects when a value it waits for is a rejection.
RefreshAll(track, weight, carOk) ==
    LET trackRes == CatchToError(track)
        weightRes == CatchToError(weight)
        thrown == trackRes.kind = "rejected" \/ weightRes.kind = "rejected"
        trains == [i \in DOMAIN CAR_ID_LIST |->
                      [carId |-> CAR_ID_LIST[i],
                       error |-> IF carOk[i] THEN "null" ELSE "failed"]]
    IN /\ variant = "p0"
       /\ hasCreds
       /\ clock < MaxCycles
       /\ clock' = clock + 1
       /\ cache' =
            IF thrown
            THEN [EmptyCache_p0 EXCEPT !.lastUpdate = clock', !.message = "thrown"]
            ELSE [success |-> TRUE, lastUpdate |-> clock', trains |-> trains,
                  trackInfo |-> IF Succeeded(trackRes) THEN trackRes ELSE NullSoap,
                  trackItems |-> IF Succeeded(trackRes)
                                 THEN extractTrackItems(trackRes) ELSE <<>>,
                  carWeight |-> IF Succeeded(weightRes) THEN weightRes ELSE NullSoap,
                  carWeightItems |-> IF Succeeded(weightRes)
                                     THEN extractCarWeightItems(weightRes) ELSE <<>>,
                  message |-> "null"]
       /\ lastCycle' = [track |-> track, weight |-> weight, caught |-> thrown,
                        ran |-> TRUE]
       /\ UNCHANGED <<hasCreds, pc, response, frame_p1>>

Next_p0 ==
    \/ RefreshAllNoCreds
    \/ \E track \in FeedAnswers_p0(<<TrackRow(S_132, S_TaipeiMain, S_Nangang, S_0128)>>),
          weight \in FeedAnswers_p0(<<WeightRow(S_132, S_BL12)>>),
          carOk \in [DOMAIN CAR_ID_LIST -> BOOLEAN] :
          RefreshAll(track, weight, carOk)

SpecP0 == Init_p0 /\ [][Next_p0]_vars

\* C36: when exactly one of callTrackInfo and callCarWeightEx failed in a
\* cycle of refreshAll, the cycle did not take its catch branch, and the
\* cache it published holds the node and the items of the feed that
\* succeeded, and nothing of the feed that failed
C36_FeedsIsolated ==
    (variant = "p0" /\ lastCycle.ran
        /\ (lastCycle.track.kind = "rejected") # (lastCycle.weight.kind = "rejected")) =>
        /\ ~lastCycle.caught
        /\ cache.success
        /\ lastCycle.weight.kind = "rejected" =>
               /\ cache.trackInfo = lastCycle.track
               /\ cache.trackItems = extractTrackItems(lastCycle.track)
               /\ cache.carWeight = NullSoap
               /\ cache.carWeightItems = <<>>
        /\ lastCycle.track.kind = "rejected" =>
               /\ cache.carWeight = lastCycle.weight
               /\ cache.carWeightItems = extractCarWeightItems(lastCycle.weight)
               /\ cache.trackInfo = NullSoap
               /\ cache.trackItems = <<>>

\* callTrackInfo timed out, callCarWeightEx gave its record as JSON text, and
\* the published cache holds that record
C36_Witness ==
    /\ variant = "p0"
    /\ lastCycle.ran
    /\ lastCycle.track = Rejected("timeout")
    /\ lastCycle.weight.kind = "jsonArray"
    /\ cache.success
    /\ cache.carWeightItems = <<WeightRow(S_132, S_BL12)>>
    /\ cache.trackItems = <<>>

====
